---- MODULE Spec2Model ----
(***************************************************************************)
(* StreamSlate: the session state store (state/mod.rs), the protocol       *)
(* command handlers (websocket/handlers.rs), the host commands that write  *)
(* the same store (commands/pdf.rs, commands/presenter.rs,                 *)
(* commands/annotations.rs) and the capture pipeline (commands/ndi.rs).    *)
(*                                                                         *)
(* Zoom factors are f64 in the source; here they are counted in tenths     *)
(* (1 = 0.1, 10 = 1.0, 50 = 5.0).  A zoom that arrives in a command is a   *)
(* JSON number, hence finite: NaN and the infinities cannot be decoded     *)
(* into WebSocketCommand::SetZoom.                                         *)
(***************************************************************************)
EXTENDS Integers, Sequences, FiniteSets, TLC

VARIABLES
    pdf,            \* AppState.pdf: PdfState behind its RwLock
    pdf_document,   \* AppState.pdf_document: TRUE when a lopdf::Document is held
    presenter,      \* AppState.presenter: PresenterState behind its RwLock
    annotations,    \* AppState.annotations: page -> sequence of serialized values
    pend,           \* per connection: the write a handler has decided on after
                    \* get_pdf_state and has not yet applied with update_pdf_state
    out,            \* the response of the last completed protocol command
    integration,    \* AppState.integration: IntegrationState behind its Mutex
    outputs,        \* AppState.outputs: OutputState behind its Mutex
    calls,          \* host capture commands in progress: position -> how many
    threads,        \* capture threads: position in run_capture_loop -> how many
    callback,       \* position of the frame callback on the capture queue
    ret,            \* what the last returned host capture command returned
    sinks,          \* the NdiSender and the SyphonServer objects themselves
    poisoned,       \* the locks of AppState that are poisoned
    broadcast_sender,   \* AppState.broadcast_sender: TRUE once the OnceLock is set
    backlog,        \* per connection: its receiver on the broadcast channel
    inbox,          \* per connection: the events its client has been sent
    dispatch,       \* the steps the connection loop has taken with out
    clients,        \* WebSocketServer.clients: the ids in the ClientMap
    rx,             \* per client: the messages queued on its mpsc channel
    ws,             \* per client: the messages written to its socket
    conn,           \* per client: where handle_connection stands
    received,       \* per client: how many items its loop took from ws_receiver
    writer,         \* per field of PdfState: the connection whose handler made the
                    \* last update_pdf_state of it (history)
    locking         \* per task: the operation it runs, how far it is in the lock
                    \* operations of it, and the locks it holds

\* The fields of AppState written by the capture pipeline, with the control
\* state of the commands and threads that write them.
capture_vars ==
    <<integration, outputs, calls, threads, callback, ret, sinks, poisoned>>

\* The broadcast channel with the connection loops on it, and the
\* WebSocketServer of websocket/server.rs.
net_vars ==
    <<broadcast_sender, backlog, inbox, dispatch, clients, rx, ws, conn, received, writer, locking>>

vars == <<pdf, pdf_document, presenter, annotations, pend, out,
          integration, outputs, calls, threads, callback, ret, sinks, poisoned,
          broadcast_sender, backlog, inbox, dispatch, clients, rx, ws, conn,
          received, writer, locking>>

---------------------------------------------------------------------------
(* Bounds of the model *)

\* Largest page count of a document that is opened.
MaxPages == 2

\* The connections whose commands interleave.
Conns == {"A", "B"}

\* Paths of the documents that can be opened.
Paths == {"a.pdf"}

\* Page numbers a client or the host can send: below, inside and above the
\* range of every document.
PageInputs == 0..(MaxPages + 1)

\* Page counts of the documents that can be opened (a PDF whose page tree is
\* empty loads with zero pages).
PageCounts == 0..MaxPages

\* The same for the runs in which commands are processed one at a time.
SeqMaxPages == 4
SeqPageInputs == 0..(SeqMaxPages + 1)
SeqPageCounts == 0..SeqMaxPages

\* Zoom values (in tenths) a client can send: negative, zero, the two limits,
\* values inside and values above the range.
ZoomInputs == {-5, 0, 1, 10, 50, 51, 700}

None == "None"

\* What takes locks of AppState: the task of a connection loop, a host
\* command, a capture thread, the frame callback on the capture queue.
LockTasks == {"connection", "host", "capture", "frame"}

\* A task outside every operation
Idle == [op |-> None, pc |-> 1, held |-> {}]

\* No handler has updated a field of PdfState yet
NoWrite == [page |-> None, zoom |-> None]

Min(a, b) == IF a < b THEN a ELSE b
Max(a, b) == IF a > b THEN a ELSE b

---------------------------------------------------------------------------
(* Events and commands (websocket/protocol.rs) *)

ErrorEvent(m) == [type |-> "Error", message |-> m]
PageChanged(p, t) == [type |-> "PageChanged", page |-> p, total_pages |-> t]
ZoomChanged(z) == [type |-> "ZoomChanged", zoom |-> z]
PresenterChanged(a) == [type |-> "PresenterChanged", active |-> a]
Pong == [type |-> "Pong"]
AnnotationsCleared == [type |-> "AnnotationsCleared"]
AnnotationsUpdated(p, vs) == [type |-> "AnnotationsUpdated", page |-> p, values |-> vs]
StateEvent(p, pr) ==
    [type |-> "State", page |-> p.current_page, total_pages |-> p.total_pages,
     zoom |-> p.zoom_level, pdf_loaded |-> p.is_loaded, pdf_path |-> p.current_file,
     presenter_active |-> pr.is_active]

NextPageCmd == [type |-> "NextPage"]
PreviousPageCmd == [type |-> "PreviousPage"]
GoToPageCmd(n) == [type |-> "GoToPage", page |-> n]
SetZoomCmd(z) == [type |-> "SetZoom", zoom |-> z]
GetStateCmd == [type |-> "GetState"]
PingCmd == [type |-> "Ping"]
TogglePresenterCmd == [type |-> "TogglePresenter"]
AddAnnotationCmd(p, v) == [type |-> "AddAnnotation", page |-> p, annotation |-> v]
ClearAnnotationsCmd == [type |-> "ClearAnnotations"]

\* A loop that re-publishes whatever handle_command returned
should_broadcast_everything(e) == TRUE

\* The event kinds the connection loop re-publishes on the broadcast channel.
should_broadcast(e) ==
    e.type \in {"PageChanged", "ZoomChanged", "PresenterChanged", "PdfOpened", "PdfClosed"}

\* What a connection loop does with the event handle_command returned: the
\* event goes to the issuing connection, and is re-published when its kind
\* is broadcast-worthy.
Respond(c, cmd, e) ==
    [conn |-> c, cmd |-> cmd, event |-> e, broadcast |-> should_broadcast(e)]

NoOut == [conn |-> None, cmd |-> [type |-> None], event |-> [type |-> None],
          broadcast |-> FALSE]

---------------------------------------------------------------------------
(* The store (state/mod.rs) *)

PdfStateDefault ==
    [current_file |-> None, current_page |-> 1, total_pages |-> 0,
     zoom_level |-> 10, is_loaded |-> FALSE]

PresenterStateDefault == [is_active |-> FALSE]

\* HashMap::new and HashMap::entry(k).or_default()
EmptyMap == [k \in {} |-> << >>]
MapGet(m, k) == IF k \in DOMAIN m THEN m[k] ELSE << >>
MapPut(m, k, v) == [x \in (DOMAIN m) \cup {k} |-> IF x = k THEN v ELSE m[x]]

NoPend == [some |-> FALSE, page |-> 0, total_pages |-> 0]
Pending(d) == [some |-> TRUE, page |-> d.page, total_pages |-> d.total_pages]

\* IntegrationState::default (derive Default)
IntegrationStateDefault ==
    [ndi_active |-> FALSE, syphon_enabled |-> FALSE, syphon_active |-> FALSE,
     frames_captured |-> 0, frames_sent |-> 0]

\* Option<Arc<dyn FrameOutput>>: None
NoSink == [some |-> FALSE]

\* OutputState::default (derive Default)
OutputStateDefault == [ndi_sender |-> NoSink, syphon_server |-> NoSink]

\* Positions of a host capture command between two lock acquisitions.
CallPcs == {"ndi_create", "ndi_stop_outputs", "syphon_register", "syphon_flags",
            "syphon_stop_outputs"}

\* Positions of a capture thread in run_capture_loop.
ThreadPcs == {"spawned", "polling", "teardown", "reset"}

NoRet == [op |-> None, result |-> None, log |-> None]

\* The two kinds of output: ndi/sender.rs and syphon/server.rs.
SinkKinds == {"ndi", "syphon"}

\* No object of a kind constructed yet.  life is "live" from the constructor
\* to Drop; resource is NdiSender.pair being Some, SyphonServer.handle being
\* non-null; acquired and released count NDI sender pairs / Syphon handles
\* created (Sender::new, syphon_server_create) and destroyed (the drop of
\* SenderPair, syphon_server_destroy).
NoObject ==
    [life |-> "none", is_running |-> FALSE, resource |-> FALSE,
     acquired |-> 0, released |-> 0, frames_sent |-> 0]

\* A receiver that does not exist: no subscription taken.
NoReceiver == [subscribed |-> FALSE, queue |-> << >>, lagged |-> FALSE]

\* AppState::new and WebSocketServer::new: the OnceLock empty, no connection
\* accepted, the ClientMap empty
NetInit ==
    /\ broadcast_sender = FALSE
    /\ backlog = [c \in Conns |-> NoReceiver]
    /\ inbox = [c \in Conns |-> << >>]
    /\ dispatch = << >>
    /\ clients = {}
    /\ rx = [c \in Conns |-> << >>]
    /\ ws = [c \in Conns |-> << >>]
    /\ conn = [c \in Conns |-> "none"]
    /\ received = [c \in Conns |-> 0]
    /\ writer = NoWrite
    /\ locking = [t \in LockTasks |-> Idle]

\* AppState::new, no capture command called and no capture thread spawned
CaptureInit ==
    /\ integration = IntegrationStateDefault
    /\ outputs = OutputStateDefault
    /\ calls = [p \in CallPcs |-> 0]
    /\ threads = [p \in ThreadPcs |-> 0]
    /\ callback = "idle"
    /\ ret = NoRet
    /\ sinks = [k \in SinkKinds |-> NoObject]
    /\ poisoned = {}
    /\ NetInit

\* AppState::new
Init ==
    /\ pdf = PdfStateDefault
    /\ pdf_document = FALSE
    /\ presenter = PresenterStateDefault
    /\ annotations = EmptyMap
    /\ pend = [c \in Conns |-> NoPend]
    /\ out = NoOut
    /\ CaptureInit

---------------------------------------------------------------------------
(* Page navigation (handlers.rs).  Each handler takes a snapshot with      *)
(* get_pdf_state, decides on it, and only then writes with                 *)
(* update_pdf_state: two lock acquisitions, so another operation can run   *)
(* between them.                                                           *)

Reject(m) == [ok |-> FALSE, message |-> m, page |-> 0, total_pages |-> 0]
Accept(p, t) == [ok |-> TRUE, message |-> "", page |-> p, total_pages |-> t]

\* handle_next_page without .min(total_pages)
next_page_decision_unclamped(s) ==
    IF ~s.is_loaded THEN Reject("No PDF is currently open")
    ELSE Accept(s.current_page + 1, s.total_pages)

\* handle_next_page without the is_loaded test
next_page_decision_unguarded(s) ==
    LET new_page == Min(s.current_page + 1, s.total_pages) IN
    IF new_page = s.current_page THEN Reject("Already on last page")
    ELSE Accept(new_page, s.total_pages)

\* handle_next_page, from the snapshot s to the decision
next_page_decision(s) ==
    IF ~s.is_loaded THEN Reject("No PDF is currently open")
    ELSE LET new_page == Min(s.current_page + 1, s.total_pages) IN
         IF new_page = s.current_page THEN Reject("Already on last page")
         ELSE Accept(new_page, s.total_pages)

\* handle_previous_page without .max(1)
previous_page_decision_unclamped(s) ==
    IF ~s.is_loaded THEN Reject("No PDF is currently open")
    ELSE LET new_page == Max(s.current_page - 1, 0) IN
         IF new_page = s.current_page THEN Reject("Already on first page")
         ELSE Accept(new_page, s.total_pages)

\* handle_previous_page: current_page.saturating_sub(1).max(1)
previous_page_decision(s) ==
    IF ~s.is_loaded THEN Reject("No PDF is currently open")
    ELSE LET new_page == Max(Max(s.current_page - 1, 0), 1) IN
         IF new_page = s.current_page THEN Reject("Already on first page")
         ELSE Accept(new_page, s.total_pages)

\* handle_go_to_page without the upper limit
go_to_page_decision_no_upper(s, page) ==
    IF ~s.is_loaded THEN Reject("No PDF is currently open")
    ELSE IF page < 1 THEN Reject("Page is out of range")
    ELSE Accept(page, s.total_pages)

\* handle_go_to_page
go_to_page_decision(s, page) ==
    IF ~s.is_loaded THEN Reject("No PDF is currently open")
    ELSE IF page < 1 \/ page > s.total_pages THEN Reject("Page is out of range")
    ELSE Accept(page, s.total_pages)

\* The part of a navigation handler up to its decision: an error is returned
\* at once, a write is left pending.
Decide(c, cmd, d) ==
    /\ pend[c] = NoPend
    /\ IF d.ok
       THEN /\ pend' = [pend EXCEPT ![c] = Pending(d)]
            /\ UNCHANGED out
       ELSE /\ out' = Respond(c, cmd, ErrorEvent(d.message))
            /\ UNCHANGED pend
    /\ UNCHANGED <<pdf, pdf_document, presenter, annotations>>
    /\ UNCHANGED <<capture_vars, net_vars>>

handle_next_page(c) == Decide(c, NextPageCmd, next_page_decision(pdf))

handle_previous_page(c) == Decide(c, PreviousPageCmd, previous_page_decision(pdf))

handle_go_to_page(c, page) == Decide(c, GoToPageCmd(page), go_to_page_decision(pdf, page))

\* The command a pending write belongs to: the three navigation handlers end
\* with the same update and the same event.
NavigationCmd == [type |-> "NextPage, PreviousPage or GoToPage"]

\* update_pdf_state(|s| s.current_page = new_page), then the PageChanged event
\* built from new_page and the snapshot's total_pages.
update_current_page(c) ==
    /\ pend[c] # NoPend
    /\ pdf' = [pdf EXCEPT !.current_page = pend[c].page]
    /\ out' = Respond(c, NavigationCmd, PageChanged(pend[c].page, pend[c].total_pages))
    /\ pend' = [pend EXCEPT ![c] = NoPend]
    /\ UNCHANGED <<pdf_document, presenter, annotations>>
    /\ UNCHANGED <<capture_vars, net_vars>>


\* A navigation handler run from get_pdf_state to its return with no other
\* operation in between (commands processed one at a time).
Handle(c, cmd, d) ==
    /\ pend[c] = NoPend
    /\ IF d.ok
       THEN /\ pdf' = [pdf EXCEPT !.current_page = d.page]
            /\ out' = Respond(c, cmd, PageChanged(d.page, d.total_pages))
       ELSE /\ out' = Respond(c, cmd, ErrorEvent(d.message))
            /\ UNCHANGED pdf
    /\ UNCHANGED <<pdf_document, presenter, annotations, pend>>
    /\ UNCHANGED <<capture_vars, net_vars>>

next_page(c) == Handle(c, NextPageCmd, next_page_decision(pdf))

previous_page(c) == Handle(c, PreviousPageCmd, previous_page_decision(pdf))

go_to_page(c, page) == Handle(c, GoToPageCmd(page), go_to_page_decision(pdf, page))

---------------------------------------------------------------------------
(* The other protocol commands on the document group (handlers.rs) *)

\* f64::clamp(0.1, 5.0), in tenths
ZOOM_MIN == 1
ZOOM_MAX == 50
clamp(z, lo, hi) == IF z < lo THEN lo ELSE IF z > hi THEN hi ELSE z

\* handle_set_zoom without the clamp
set_zoom_value_unclamped(zoom) == zoom

\* handle_set_zoom: the zoom that is stored and reported
set_zoom_value(zoom) == clamp(zoom, ZOOM_MIN, ZOOM_MAX)

handle_set_zoom(c, zoom) ==
    /\ pend[c] = NoPend
    /\ LET z == set_zoom_value(zoom) IN
       /\ pdf' = [pdf EXCEPT !.zoom_level = z]
       /\ out' = Respond(c, SetZoomCmd(zoom), ZoomChanged(z))
    /\ UNCHANGED <<pdf_document, presenter, annotations, pend>>
    /\ UNCHANGED <<capture_vars, net_vars>>

handle_get_state(c) ==
    /\ pend[c] = NoPend
    /\ out' = Respond(c, GetStateCmd, StateEvent(pdf, presenter))
    /\ UNCHANGED <<pdf, pdf_document, presenter, annotations, pend>>
    /\ UNCHANGED <<capture_vars, net_vars>>

\* WebSocketCommand::Ping => WebSocketEvent::Pong
handle_ping(c) ==
    /\ pend[c] = NoPend
    /\ out' = Respond(c, PingCmd, Pong)
    /\ UNCHANGED <<pdf, pdf_document, presenter, annotations, pend>>
    /\ UNCHANGED <<capture_vars, net_vars>>

---------------------------------------------------------------------------
(* Host commands that write the document group *)

\* The record open_pdf stores for a document of page_count pages.
opened_pdf_state(s, path, page_count) ==
    [s EXCEPT !.current_file = path, !.total_pages = page_count,
              !.current_page = 1, !.is_loaded = TRUE]

\* commands/pdf.rs open_pdf, for a file that exists and loads
open_pdf(path, page_count) ==
    /\ pdf' = opened_pdf_state(pdf, path, page_count)
    /\ pdf_document' = TRUE
    /\ UNCHANGED <<presenter, annotations, pend, out>>
    /\ UNCHANGED <<capture_vars, net_vars>>

\* The record close_pdf stores.
closed_pdf_state(s) ==
    [s EXCEPT !.current_file = None, !.total_pages = 0,
              !.current_page = 1, !.is_loaded = FALSE]

\* commands/pdf.rs close_pdf
close_pdf ==
    /\ pdf' = closed_pdf_state(pdf)
    /\ pdf_document' = FALSE
    /\ UNCHANGED <<presenter, annotations, pend, out>>
    /\ UNCHANGED <<capture_vars, net_vars>>

\* The record set_presenter_page stores: the page as given.
presenter_page_state(s, page) == [s EXCEPT !.current_page = page]

\* commands/presenter.rs set_presenter_page
set_presenter_page(page) ==
    /\ pdf' = presenter_page_state(pdf, page)
    /\ UNCHANGED <<pdf_document, presenter, annotations, pend, out>>
    /\ UNCHANGED <<capture_vars, net_vars>>

---------------------------------------------------------------------------
(* Spec: the document session.  The navigation commands of every           *)
(* connection interleave with each other and with the host commands.       *)

Next ==
    \/ \E c \in Conns : handle_next_page(c)
    \/ \E c \in Conns : handle_previous_page(c)
    \/ \E c \in Conns, n \in PageInputs : handle_go_to_page(c, n)
    \/ \E c \in Conns : update_current_page(c)
    \/ \E p \in Paths, n \in PageCounts : open_pdf(p, n)
    \/ close_pdf
    \/ \E n \in PageInputs : set_presenter_page(n)

Spec == Init /\ [][Next]_vars

---------------------------------------------------------------------------
(* SpecSeq: the protocol commands on the document group processed one at a *)
(* time, with the host commands between them.                              *)

NextSeq ==
    \/ \E c \in Conns : next_page(c)
    \/ \E c \in Conns : previous_page(c)
    \/ \E c \in Conns, n \in SeqPageInputs : go_to_page(c, n)
    \/ \E c \in Conns, z \in ZoomInputs : handle_set_zoom(c, z)
    \/ \E c \in Conns : handle_get_state(c)
    \/ \E c \in Conns : handle_ping(c)
    \/ \E p \in Paths, n \in SeqPageCounts : open_pdf(p, n)
    \/ close_pdf
    \/ \E n \in SeqPageInputs : set_presenter_page(n)

SpecSeq == Init /\ [][NextSeq]_vars

---------------------------------------------------------------------------
(* SpecNav: a loaded document with at least one page and a page inside the *)
(* document, and nothing but navigation commands, one at a time.           *)

InitNav ==
    /\ \E p \in Paths, t \in 1..SeqMaxPages, n \in 1..SeqMaxPages :
          /\ n <= t
          /\ pdf = [current_file |-> p, current_page |-> n, total_pages |-> t,
                    zoom_level |-> 10, is_loaded |-> TRUE]
    /\ pdf_document = TRUE
    /\ presenter = PresenterStateDefault
    /\ annotations = EmptyMap
    /\ pend = [c \in Conns |-> NoPend]
    /\ out = NoOut
    /\ CaptureInit

NextNav ==
    \/ \E c \in Conns : next_page(c)
    \/ \E c \in Conns : previous_page(c)
    \/ \E c \in Conns, n \in SeqPageInputs : go_to_page(c, n)

SpecNav == InitNav /\ [][NextNav]_vars

---------------------------------------------------------------------------
(* Annotations (handlers.rs, commands/annotations.rs) and the presenter    *)
(* flag (commands/presenter.rs)                                            *)

\* Longest annotation sequence of a page.
MaxAnnotations == 2

\* Pages annotations are added to.
AnnPages == {1, 3}

\* Annotation payloads: X and Y are objects with the fields of the Annotation
\* struct, J is another JSON value.
AnnValues == {"X", "Y", "J"}

\* serde_json::to_string of a serde_json::Value: the text that is stored
to_string(v) == <<"json", v>>

\* serde_json::from_str into a serde_json::Value
from_str(t) == t[2]

\* serde_json::from_str::<Annotation>(s).ok(): only an object with the
\* fields of the struct decodes
is_annotation(t) == from_str(t) \in {"X", "Y"}

\* map.entry(page).or_default() with the value pushed in front
push_entry_front(m, page, t) == MapPut(m, page, <<t>> \o MapGet(m, page))

\* map.entry(page).or_default().push(annotation_str)
push_entry(m, page, t) == MapPut(m, page, Append(MapGet(m, page), t))

handle_add_annotation(c, page, v) ==
    /\ Len(MapGet(annotations, page)) < MaxAnnotations
    /\ annotations' = push_entry(annotations, page, to_string(v))
    /\ out' = Respond(c, AddAnnotationCmd(page, v), AnnotationsUpdated(page, <<v>>))
    /\ UNCHANGED <<pdf, pdf_document, presenter, pend>>
    /\ UNCHANGED <<capture_vars, net_vars>>

\* map.clear() that empties the sequences and keeps their entries
clear_map_values(m) == [k \in DOMAIN m |-> << >>]

\* map.clear()
clear_map(m) == EmptyMap

handle_clear_annotations(c) ==
    /\ annotations' = clear_map(annotations)
    /\ out' = Respond(c, ClearAnnotationsCmd, AnnotationsCleared)
    /\ UNCHANGED <<pdf, pdf_document, presenter, pend>>
    /\ UNCHANGED <<capture_vars, net_vars>>

\* commands/annotations.rs clear_annotations: refused without an open
\* document and when the sidecar file cannot be deleted, else the store is
\* emptied
clear_annotations(file_removed) ==
    /\ annotations' = IF pdf.current_file = None \/ ~file_removed THEN annotations
                      ELSE clear_map(annotations)
    /\ UNCHANGED <<pdf, pdf_document, presenter, pend, out>>
    /\ UNCHANGED <<capture_vars, net_vars>>

\* commands/annotations.rs get_page_annotations: the stored texts of the
\* page that decode as Annotation, decoded, in stored order
RECURSIVE decode_annotations(_)
decode_annotations(ts) ==
    IF ts = << >> THEN << >>
    ELSE IF is_annotation(Head(ts))
         THEN <<from_str(Head(ts))>> \o decode_annotations(Tail(ts))
         ELSE decode_annotations(Tail(ts))

get_page_annotations(m, page_number) == decode_annotations(MapGet(m, page_number))

\* commands/presenter.rs open_presenter_mode: nothing is written when the
\* presenter window already exists
open_presenter_mode(window_exists) ==
    /\ presenter' = IF window_exists THEN presenter
                    ELSE [presenter EXCEPT !.is_active = TRUE]
    /\ UNCHANGED <<pdf, pdf_document, annotations, pend, out>>
    /\ UNCHANGED <<capture_vars, net_vars>>

\* commands/presenter.rs close_presenter_mode: nothing is written when
\* closing the presenter window fails
close_presenter_mode(window_closed) ==
    /\ presenter' = IF window_closed THEN [presenter EXCEPT !.is_active = FALSE]
                    ELSE presenter
    /\ UNCHANGED <<pdf, pdf_document, annotations, pend, out>>
    /\ UNCHANGED <<capture_vars, net_vars>>

---------------------------------------------------------------------------
(* SpecAnn: annotation commands of every connection, with the host         *)
(* commands that change the document and the presenter flag.               *)

NextAnn ==
    \/ \E c \in Conns, p \in AnnPages, v \in AnnValues : handle_add_annotation(c, p, v)
    \/ \E c \in Conns : handle_clear_annotations(c)
    \/ \E r \in BOOLEAN : clear_annotations(r)
    \/ \E p \in Paths : open_pdf(p, 1)
    \/ close_pdf
    \/ \E w \in BOOLEAN : open_presenter_mode(w)
    \/ \E w \in BOOLEAN : close_presenter_mode(w)

SpecAnn == Init /\ [][NextAnn]_vars

---------------------------------------------------------------------------
(* The capture pipeline (commands/ndi.rs).  A host command takes the       *)
(* integration lock and the outputs lock one after the other and other     *)
(* commands, the capture threads and the frame callback run in between.    *)
(* Frames are delivered one at a time.                                     *)

\* Largest value framesCaptured is let to reach before the next reset.
MaxFrames == 1

\* Most capture threads alive at once.
MaxThreads == 2

\* Most host capture commands in progress at once.
MaxCalls == 1

BagAdd(b, p) == [b EXCEPT ![p] = @ + 1]
BagRemove(b, p) == [b EXCEPT ![p] = @ - 1]
BagMove(b, p, q) == BagAdd(BagRemove(b, p), q)

RECURSIVE BagCount(_, _)
BagCount(b, ps) ==
    IF ps = {} THEN 0
    ELSE LET p == CHOOSE x \in ps : TRUE IN b[p] + BagCount(b, ps \ {p})

CallsInProgress == BagCount(calls, CallPcs)
ThreadsAlive == BagCount(threads, ThreadPcs)

\* What a command returned, with the line it logged on the way when one
\* branch of it logs and another does not.
Returned(op, result) == [op |-> op, result |-> result, log |-> None]
ReturnedWarned(op, result) == [op |-> op, result |-> result, log |-> "warn"]
ReturnedInfo(op, result) == [op |-> op, result |-> result, log |-> "info"]

\* A started NdiSender or a created SyphonServer behind its Arc<dyn FrameOutput>
RunningSink == [some |-> TRUE, is_running |-> TRUE]

\* The frame callback holds the outputs lock from the first sink to the last.
OutputsLocked == callback \in {"ndi_sent", "syphon", "syphon_sent"}

\* Where the frame callback last returned: at its end, at the empty-frame
\* check, or at its end after the Syphon send failed.
CallbackReturned == callback \in {"idle", "skipped", "syphon_error"}

\* get_capture_status: what a client is told
get_capture_status(s) ==
    [is_capturing |-> s.ndi_active, syphon_running |-> s.syphon_active,
     frames_captured |-> s.frames_captured, frames_sent |-> s.frames_sent]

\* start_ndi_sender, the check of "1. Check/Set State"
capture_already_running(s) == s.ndi_active

\* start_ndi_sender, "1. Check/Set State" under the integration lock
start_ndi_sender ==
    /\ IF capture_already_running(integration)
       THEN /\ ret' = ReturnedWarned("start_ndi_sender", "Ok")
            /\ UNCHANGED <<integration, calls>>
       ELSE /\ CallsInProgress < MaxCalls
            /\ ThreadsAlive + calls["ndi_create"] < MaxThreads
            /\ integration' = [integration EXCEPT !.ndi_active = TRUE]
            /\ calls' = BagAdd(calls, "ndi_create")
            /\ UNCHANGED ret
    /\ UNCHANGED <<outputs, threads, callback>>
    /\ UNCHANGED <<pdf, pdf_document, presenter, annotations, pend, out, sinks,
                   poisoned, net_vars>>

\* start_ndi_sender, "2. Create and start NDI sender" and "3. Spawn capture
\* thread": the sender is stored when NdiSender::new and start succeed
start_ndi_sender_spawn ==
    /\ calls["ndi_create"] > 0
    /\ \E started \in BOOLEAN :
          IF started
          THEN /\ ~OutputsLocked
               /\ outputs' = [outputs EXCEPT !.ndi_sender = RunningSink]
          ELSE UNCHANGED outputs
    /\ threads' = BagAdd(threads, "spawned")
    /\ calls' = BagRemove(calls, "ndi_create")
    /\ ret' = Returned("start_ndi_sender", "Ok")
    /\ UNCHANGED <<integration, callback>>
    /\ UNCHANGED <<pdf, pdf_document, presenter, annotations, pend, out, sinks,
                   poisoned, net_vars>>

\* stop_ndi_sender that never finds capture stopped
capture_not_running_unchecked(s) == FALSE

\* stop_ndi_sender, the check of its first block
capture_not_running(s) == ~s.ndi_active

\* stop_ndi_sender, the block under the integration lock
stop_ndi_sender ==
    /\ IF capture_not_running(integration)
       THEN /\ ret' = Returned("stop_ndi_sender", "Ok")
            /\ UNCHANGED <<integration, calls>>
       ELSE /\ CallsInProgress < MaxCalls
            /\ integration' = [integration EXCEPT !.ndi_active = FALSE,
                                                  !.frames_captured = 0,
                                                  !.frames_sent = 0]
            /\ calls' = BagAdd(calls, "ndi_stop_outputs")
            /\ UNCHANGED ret
    /\ UNCHANGED <<outputs, threads, callback>>
    /\ UNCHANGED <<pdf, pdf_document, presenter, annotations, pend, out, sinks,
                   poisoned, net_vars>>

\* stop_ndi_sender, the block under the outputs lock
stop_ndi_sender_outputs ==
    /\ calls["ndi_stop_outputs"] > 0
    /\ ~OutputsLocked
    /\ outputs' = [outputs EXCEPT !.ndi_sender = NoSink]
    /\ calls' = BagRemove(calls, "ndi_stop_outputs")
    /\ ret' = ReturnedInfo("stop_ndi_sender", "Ok")
    /\ UNCHANGED <<integration, threads, callback>>
    /\ UNCHANGED <<pdf, pdf_document, presenter, annotations, pend, out, sinks,
                   poisoned, net_vars>>

\* start_syphon_output, the check under the integration lock and
\* SyphonServer::new
start_syphon_output ==
    /\ IF integration.syphon_active
       THEN /\ ret' = Returned("start_syphon_output", "Ok")
            /\ UNCHANGED calls
       ELSE \E created \in BOOLEAN :
               IF created
               THEN /\ CallsInProgress < MaxCalls
                    /\ calls' = BagAdd(calls, "syphon_register")
                    /\ UNCHANGED ret
               ELSE /\ ret' = Returned("start_syphon_output", "Err")
                    /\ UNCHANGED calls
    /\ UNCHANGED <<integration, outputs, threads, callback>>
    /\ UNCHANGED <<pdf, pdf_document, presenter, annotations, pend, out, sinks,
                   poisoned, net_vars>>

\* start_syphon_output, the block under the outputs lock
start_syphon_output_register ==
    /\ calls["syphon_register"] > 0
    /\ ~OutputsLocked
    /\ outputs' = [outputs EXCEPT !.syphon_server = RunningSink]
    /\ calls' = BagMove(calls, "syphon_register", "syphon_flags")
    /\ UNCHANGED <<integration, threads, callback, ret>>
    /\ UNCHANGED <<pdf, pdf_document, presenter, annotations, pend, out, sinks,
                   poisoned, net_vars>>

\* start_syphon_output, the last block under the integration lock
start_syphon_output_flags ==
    /\ calls["syphon_flags"] > 0
    /\ integration' = [integration EXCEPT !.syphon_enabled = TRUE,
                                          !.syphon_active = TRUE]
    /\ calls' = BagRemove(calls, "syphon_flags")
    /\ ret' = Returned("start_syphon_output", "Ok")
    /\ UNCHANGED <<outputs, threads, callback>>
    /\ UNCHANGED <<pdf, pdf_document, presenter, annotations, pend, out, sinks,
                   poisoned, net_vars>>

\* stop_syphon_output, the block under the integration lock
stop_syphon_output ==
    /\ CallsInProgress < MaxCalls
    /\ integration' = [integration EXCEPT !.syphon_active = FALSE]
    /\ calls' = BagAdd(calls, "syphon_stop_outputs")
    /\ UNCHANGED <<outputs, threads, callback, ret>>
    /\ UNCHANGED <<pdf, pdf_document, presenter, annotations, pend, out, sinks,
                   poisoned, net_vars>>

\* stop_syphon_output, the block under the outputs lock
stop_syphon_output_outputs ==
    /\ calls["syphon_stop_outputs"] > 0
    /\ ~OutputsLocked
    /\ outputs' = [outputs EXCEPT !.syphon_server = NoSink]
    /\ calls' = BagRemove(calls, "syphon_stop_outputs")
    /\ ret' = Returned("stop_syphon_output", "Ok")
    /\ UNCHANGED <<integration, threads, callback>>
    /\ UNCHANGED <<pdf, pdf_document, presenter, annotations, pend, out, sinks,
                   poisoned, net_vars>>

\* run_capture_loop up to stream.start_capture(): the target is not found
\* (the flag is cleared and the thread returns), or start_capture fails (the
\* thread returns through `?`), or the stream is started
OutcomesOfStart == {"no_target", "stream_failed", "started"}

run_capture_loop_start(outcome) ==
    /\ threads["spawned"] > 0
    /\ integration' = IF outcome = "no_target"
                      THEN [integration EXCEPT !.ndi_active = FALSE]
                      ELSE integration
    /\ threads' = IF outcome = "started"
                  THEN BagMove(threads, "spawned", "polling")
                  ELSE BagRemove(threads, "spawned")
    /\ UNCHANGED <<outputs, calls, callback, ret>>
    /\ UNCHANGED <<pdf, pdf_document, presenter, annotations, pend, out, sinks,
                   poisoned, net_vars>>

\* run_capture_loop, one turn of "Poll for stop signal", with
\* stream.stop_capture() when the flag is found cleared
run_capture_loop_poll ==
    /\ threads["polling"] > 0
    /\ threads' = IF integration.ndi_active THEN threads
                  ELSE BagMove(threads, "polling", "teardown")
    /\ UNCHANGED <<integration, outputs, calls, callback, ret>>
    /\ UNCHANGED <<pdf, pdf_document, presenter, annotations, pend, out, sinks,
                   poisoned, net_vars>>

\* run_capture_loop, "Stop all outputs" under the outputs lock
run_capture_loop_stop_outputs ==
    /\ threads["teardown"] > 0
    /\ ~OutputsLocked
    /\ outputs' = [ndi_sender |-> NoSink, syphon_server |-> NoSink]
    /\ threads' = BagMove(threads, "teardown", "reset")
    /\ UNCHANGED <<integration, calls, callback, ret>>
    /\ UNCHANGED <<pdf, pdf_document, presenter, annotations, pend, out, sinks,
                   poisoned, net_vars>>

\* AppState::reset_frame_counters
reset_frame_counters(s) == [s EXCEPT !.frames_captured = 0, !.frames_sent = 0]

\* AppState::increment_frames_captured
increment_frames_captured(s) == [s EXCEPT !.frames_captured = @ + 1]

\* increment_frames_sent that counts a delivery twice
increment_frames_sent_twice(s) == [s EXCEPT !.frames_sent = @ + 2]

\* AppState::increment_frames_sent
increment_frames_sent(s) == [s EXCEPT !.frames_sent = @ + 1]

\* run_capture_loop, state.reset_frame_counters() and the return
run_capture_loop_reset ==
    /\ threads["reset"] > 0
    /\ integration' = reset_frame_counters(integration)
    /\ threads' = BagRemove(threads, "reset")
    /\ UNCHANGED <<outputs, calls, callback, ret>>
    /\ UNCHANGED <<pdf, pdf_document, presenter, annotations, pend, out, sinks,
                   poisoned, net_vars>>

\* The frame callback that skips no frame
frame_is_skipped_never(empty) == FALSE

\* The frame callback: if frame.data.is_empty() { return; }
frame_is_skipped(empty) == empty

\* The frame callback up to increment_frames_captured: a frame without pixel
\* data is skipped
frame_callback(empty) ==
    /\ threads["polling"] > 0
    /\ CallbackReturned
    /\ IF frame_is_skipped(empty)
       THEN /\ callback' = "skipped"
            /\ UNCHANGED integration
       ELSE /\ integration.frames_captured < MaxFrames
            /\ integration' = increment_frames_captured(integration)
            /\ callback' = "fan_out"
    /\ UNCHANGED <<outputs, calls, threads, ret>>
    /\ UNCHANGED <<pdf, pdf_document, presenter, annotations, pend, out, sinks,
                   poisoned, net_vars>>

\* is_running() of a stored output
sink_is_running(sink) == sink.some /\ sink.is_running

\* NdiSender::send_frame seen through the registry: an error when the sender
\* is not running; send_video itself returns nothing
ndi_send_frame(sink) == IF sink.is_running THEN "Ok" ELSE "Err"

\* SyphonServer::publish_frame seen through the registry: an error when the
\* server is not running or syphon_server_publish_frame returns non-zero
syphon_send_frame(sink, published) ==
    IF sink.is_running /\ published THEN "Ok" ELSE "Err"

\* The frame callback after the NDI branch: the count after a send that
\* succeeded, the Syphon branch otherwise
after_ndi_send(offered, result) ==
    IF offered /\ result = "Ok" THEN "ndi_sent" ELSE "syphon"

\* The frame callback after a Syphon send, counting a failed send too
after_syphon_send_counted(offered, result) ==
    IF ~offered THEN "idle" ELSE "syphon_sent"

\* The frame callback after the Syphon branch: the count after a send that
\* succeeded, the end of the callback otherwise
after_syphon_send(offered, result) ==
    IF ~offered THEN "idle"
    ELSE IF result = "Ok" THEN "syphon_sent" ELSE "syphon_error"

\* A fan-out that unregisters the Syphon server after a failed send
registry_after_send_teardown(o, result) ==
    IF result = "Err" THEN [o EXCEPT !.syphon_server = NoSink] ELSE o

\* The registry after a send: the callback only reads it
registry_after_send(o, result) == o

\* The frame callback: outputs.lock() and send_frame on the NDI sender
frame_callback_ndi ==
    /\ callback = "fan_out"
    /\ LET offered == sink_is_running(outputs.ndi_sender) IN
          callback' = after_ndi_send(offered,
                          IF offered THEN ndi_send_frame(outputs.ndi_sender) ELSE "Ok")
    /\ UNCHANGED <<integration, outputs, calls, threads, ret>>
    /\ UNCHANGED <<pdf, pdf_document, presenter, annotations, pend, out, sinks,
                   poisoned, net_vars>>

\* The frame callback: increment_frames_sent after the NDI send
frame_callback_ndi_sent ==
    /\ callback = "ndi_sent"
    /\ integration' = increment_frames_sent(integration)
    /\ callback' = "syphon"
    /\ UNCHANGED <<outputs, calls, threads, ret>>
    /\ UNCHANGED <<pdf, pdf_document, presenter, annotations, pend, out, sinks,
                   poisoned, net_vars>>

\* The frame callback: send_frame on the Syphon server; the outputs lock is
\* dropped at the end of the callback
frame_callback_syphon(published) ==
    /\ callback = "syphon"
    /\ LET offered == sink_is_running(outputs.syphon_server)
           result == IF offered THEN syphon_send_frame(outputs.syphon_server, published)
                     ELSE "Ok"
       IN /\ callback' = after_syphon_send(offered, result)
          /\ outputs' = registry_after_send(outputs, result)
    /\ UNCHANGED <<integration, calls, threads, ret>>
    /\ UNCHANGED <<pdf, pdf_document, presenter, annotations, pend, out, sinks,
                   poisoned, net_vars>>

\* The frame callback: increment_frames_sent after the Syphon send
frame_callback_syphon_sent ==
    /\ callback = "syphon_sent"
    /\ integration' = increment_frames_sent(integration)
    /\ callback' = "idle"
    /\ UNCHANGED <<outputs, calls, threads, ret>>
    /\ UNCHANGED <<pdf, pdf_document, presenter, annotations, pend, out, sinks,
                   poisoned, net_vars>>

---------------------------------------------------------------------------
(* SpecCapture: the host capture commands, the capture threads they spawn  *)
(* and the frames the started streams deliver.                             *)

NextCapture ==
    \/ start_ndi_sender
    \/ start_ndi_sender_spawn
    \/ stop_ndi_sender
    \/ stop_ndi_sender_outputs
    \/ start_syphon_output
    \/ start_syphon_output_register
    \/ start_syphon_output_flags
    \/ stop_syphon_output
    \/ stop_syphon_output_outputs
    \/ \E outcome \in OutcomesOfStart : run_capture_loop_start(outcome)
    \/ run_capture_loop_poll
    \/ run_capture_loop_stop_outputs
    \/ run_capture_loop_reset
    \/ \E empty \in BOOLEAN : frame_callback(empty)
    \/ frame_callback_ndi
    \/ frame_callback_ndi_sent
    \/ \E published \in BOOLEAN : frame_callback_syphon(published)
    \/ frame_callback_syphon_sent

SpecCapture == Init /\ [][NextCapture]_vars

---------------------------------------------------------------------------
(* The output objects: NdiSender (ndi/sender.rs) and SyphonServer          *)
(* (syphon/server.rs), each called through FrameOutput by whoever holds it *)

\* Most sender pairs one NdiSender is let to create (start after stop).
MaxStarts == 2

\* Largest value the frames_sent of one object is let to reach.
MaxSent == 2

\* NdiSender::new: no pair yet, not running; it has no failing path
NdiSender_new ==
    [life |-> "live", is_running |-> FALSE, resource |-> FALSE,
     acquired |-> 0, released |-> 0, frames_sent |-> 0]

\* NdiSender::start: nothing when already running; NDI::new() or
\* Sender::new may fail (created = FALSE), else the pair is stored and
\* is_running set
NdiSender_start(s, created) ==
    IF s.is_running THEN [result |-> "Ok", sink |-> s]
    ELSE IF ~created THEN [result |-> "Err", sink |-> s]
    ELSE [result |-> "Ok",
          sink |-> [s EXCEPT !.resource = TRUE, !.acquired = @ + 1,
                             !.is_running = TRUE]]

\* NdiSender::stop: returns at once when not running, else clears
\* is_running and drops the pair
NdiSender_stop(s) ==
    IF ~s.is_running THEN s
    ELSE [s EXCEPT !.is_running = FALSE, !.resource = FALSE,
                   !.released = IF s.resource THEN @ + 1 ELSE @]

\* NdiSender::send_frame: an error when not running or when no pair is
\* held; else send_video and the object's own frames_sent
NdiSender_send_frame(s) ==
    IF ndi_send_frame(s) = "Err" \/ ~s.resource
    THEN [result |-> "Err", sink |-> s]
    ELSE [result |-> "Ok", sink |-> [s EXCEPT !.frames_sent = @ + 1]]

\* Drop for NdiSender: stop(), then the fields are dropped and a pair
\* still held goes with them
NdiSender_drop(s) ==
    LET t == NdiSender_stop(s)
    IN  [t EXCEPT !.life = "dropped", !.resource = FALSE,
                  !.released = IF t.resource THEN @ + 1 ELSE @]

\* SyphonServer::new after syphon_server_create returned a handle
SyphonServer_new ==
    [life |-> "live", is_running |-> TRUE, resource |-> TRUE,
     acquired |-> 1, released |-> 0, frames_sent |-> 0]

\* publish_frame without its is_running check
SyphonServer_publish_frame_unchecked(s, empty, published) ==
    IF empty THEN [result |-> "Ok", sink |-> s]
    ELSE IF ~published THEN [result |-> "Err", sink |-> s]
    ELSE [result |-> "Ok", sink |-> [s EXCEPT !.frames_sent = @ + 1]]

\* SyphonServer::publish_frame: an error when not running, Ok with nothing
\* published for an empty frame, an error when
\* syphon_server_publish_frame returns non-zero, else frames_sent + 1
SyphonServer_publish_frame(s, empty, published) ==
    IF ~s.is_running THEN [result |-> "Err", sink |-> s]
    ELSE IF empty THEN [result |-> "Ok", sink |-> s]
    ELSE IF syphon_send_frame(s, published) = "Err"
    THEN [result |-> "Err", sink |-> s]
    ELSE [result |-> "Ok", sink |-> [s EXCEPT !.frames_sent = @ + 1]]

\* FrameOutput::stop for SyphonServer: only is_running is stored
SyphonServer_stop(s) == [s EXCEPT !.is_running = FALSE]

\* Drop for SyphonServer: syphon_server_destroy on a non-null handle
SyphonServer_drop(s) ==
    [s EXCEPT !.life = "dropped", !.resource = FALSE,
              !.released = IF s.resource THEN @ + 1 ELSE @]

\* A constructor can run whenever the previous object of the kind, if any,
\* has been dropped.
Constructible(k) == sinks[k].life \in {"none", "dropped"}

Live(k) == sinks[k].life = "live"

sink_frame == <<pdf, pdf_document, presenter, annotations, pend, out,
                integration, outputs, calls, threads, callback, poisoned,
                net_vars>>

call_NdiSender_new ==
    /\ Constructible("ndi")
    /\ sinks' = [sinks EXCEPT !["ndi"] = NdiSender_new]
    /\ ret' = Returned("NdiSender::new", "Ok")
    /\ UNCHANGED sink_frame

call_NdiSender_start(created) ==
    /\ Live("ndi")
    /\ sinks["ndi"].acquired < MaxStarts
    /\ LET r == NdiSender_start(sinks["ndi"], created)
       IN  /\ sinks' = [sinks EXCEPT !["ndi"] = r.sink]
           /\ ret' = IF sinks["ndi"].is_running
                     THEN ReturnedWarned("NdiSender::start", r.result)
                     ELSE IF r.result = "Ok"
                          THEN ReturnedInfo("NdiSender::start", r.result)
                          ELSE Returned("NdiSender::start", r.result)
    /\ UNCHANGED sink_frame

\* the early return logs nothing, the other branch logs "NDI sender stopped"
call_NdiSender_stop ==
    /\ Live("ndi")
    /\ sinks' = [sinks EXCEPT !["ndi"] = NdiSender_stop(@)]
    /\ ret' = IF sinks["ndi"].is_running
              THEN ReturnedInfo("NdiSender::stop", "()")
              ELSE Returned("NdiSender::stop", "()")
    /\ UNCHANGED sink_frame

call_NdiSender_send_frame ==
    /\ Live("ndi")
    /\ LET r == NdiSender_send_frame(sinks["ndi"])
       IN  /\ r.sink.frames_sent <= MaxSent
           /\ sinks' = [sinks EXCEPT !["ndi"] = r.sink]
           /\ ret' = Returned("NdiSender::send_frame", r.result)
    /\ UNCHANGED sink_frame

call_NdiSender_drop ==
    /\ Live("ndi")
    /\ sinks' = [sinks EXCEPT !["ndi"] = NdiSender_drop(@)]
    /\ ret' = Returned("NdiSender::drop", "()")
    /\ UNCHANGED sink_frame

\* SyphonServer::new: Err, and no object, when syphon_server_create returns
\* a null handle
call_SyphonServer_new(created) ==
    /\ Constructible("syphon")
    /\ IF created
       THEN /\ sinks' = [sinks EXCEPT !["syphon"] = SyphonServer_new]
            /\ ret' = ReturnedInfo("SyphonServer::new", "Ok")
       ELSE /\ sinks' = sinks
            /\ ret' = Returned("SyphonServer::new", "Err")
    /\ UNCHANGED sink_frame

call_SyphonServer_send_frame(empty, published) ==
    /\ Live("syphon")
    /\ LET r == SyphonServer_publish_frame(sinks["syphon"], empty, published)
       IN  /\ r.sink.frames_sent <= MaxSent
           /\ sinks' = [sinks EXCEPT !["syphon"] = r.sink]
           /\ ret' = Returned("SyphonServer::send_frame", r.result)
    /\ UNCHANGED sink_frame

call_SyphonServer_stop ==
    /\ Live("syphon")
    /\ sinks' = [sinks EXCEPT !["syphon"] = SyphonServer_stop(@)]
    /\ ret' = ReturnedInfo("SyphonServer::stop", "()")
    /\ UNCHANGED sink_frame

call_SyphonServer_drop ==
    /\ Live("syphon")
    /\ sinks' = [sinks EXCEPT !["syphon"] = SyphonServer_drop(@)]
    /\ ret' = IF sinks["syphon"].resource
              THEN ReturnedInfo("SyphonServer::drop", "()")
              ELSE Returned("SyphonServer::drop", "()")
    /\ UNCHANGED sink_frame

NextSink ==
    \/ call_NdiSender_new
    \/ \E created \in BOOLEAN : call_NdiSender_start(created)
    \/ call_NdiSender_stop
    \/ call_NdiSender_send_frame
    \/ call_NdiSender_drop
    \/ \E created \in BOOLEAN : call_SyphonServer_new(created)
    \/ \E empty, published \in BOOLEAN :
           call_SyphonServer_send_frame(empty, published)
    \/ call_SyphonServer_stop
    \/ call_SyphonServer_drop

SpecSink == Init /\ [][NextSink]_vars

---------------------------------------------------------------------------
(* Poisoned locks.  Every field of AppState sits behind an RwLock or a     *)
(* Mutex; once a thread has panicked while holding one, each later         *)
(* read(), write() or lock() of it returns Err.                            *)

\* The locks of AppState that the modelled operations take.
Locks == {"pdf", "pdf_document", "presenter", "annotations",
          "integration", "outputs"}

\* Most locks poisoned at once.
MaxPoisoned == 1

\* A thread panics while it holds lock l.
lock_poisoned(l) ==
    /\ l \notin poisoned
    /\ Cardinality(poisoned) < MaxPoisoned
    /\ poisoned' = poisoned \cup {l}
    /\ UNCHANGED <<pdf, pdf_document, presenter, annotations, pend, out,
                   integration, outputs, calls, threads, callback, ret, sinks,
                   net_vars>>

\* StreamSlateError::StateLock, as text in WebSocketEvent::error
StateLockError == ErrorEvent("State lock error")

\* The commands of the protocol, one of each kind.
ProtocolCmds ==
    {NextPageCmd, PreviousPageCmd, GoToPageCmd(1), SetZoomCmd(10), GetStateCmd,
     PingCmd, TogglePresenterCmd, AddAnnotationCmd(1, "X"), ClearAnnotationsCmd}

\* The locks a command's handler takes.
locks_of(cmd) ==
    IF cmd.type \in {"NextPage", "PreviousPage", "GoToPage", "SetZoom"}
    THEN {"pdf"}
    ELSE IF cmd.type = "GetState" THEN {"pdf", "presenter"}
    ELSE IF cmd.type = "TogglePresenter" THEN {"presenter"}
    ELSE IF cmd.type \in {"AddAnnotation", "ClearAnnotations"}
    THEN {"annotations"}
    ELSE {}

\* A handler whose accessor returned Err: WebSocketEvent::error(e.to_string())
\* is returned before anything is written.
handle_command_state_lock(c, cmd) ==
    /\ pend[c] = NoPend
    /\ locks_of(cmd) \cap poisoned # {}
    /\ out' = Respond(c, cmd, StateLockError)
    /\ UNCHANGED <<pdf, pdf_document, presenter, annotations, pend>>
    /\ UNCHANGED <<capture_vars, net_vars>>

\* open_pdf with a poisoned lock: update_pdf_state fails first and nothing
\* is written; set_pdf_document fails after update_pdf_state has written
open_pdf_state_lock(path, page_count) ==
    /\ {"pdf", "pdf_document"} \cap poisoned # {}
    /\ pdf' = IF "pdf" \in poisoned THEN pdf
              ELSE opened_pdf_state(pdf, path, page_count)
    /\ ret' = Returned("open_pdf", "Err")
    /\ UNCHANGED <<pdf_document, presenter, annotations, pend, out, net_vars>>
    /\ UNCHANGED <<integration, outputs, calls, threads, callback, sinks, poisoned>>

\* start_ndi_sender with the integration lock poisoned: StateLock from
\* "1. Check/Set State"
start_ndi_sender_state_lock ==
    /\ "integration" \in poisoned
    /\ ret' = Returned("start_ndi_sender", "Err")
    /\ UNCHANGED <<pdf, pdf_document, presenter, annotations, pend, out, net_vars>>
    /\ UNCHANGED <<integration, outputs, calls, threads, callback, sinks, poisoned>>

\* start_ndi_sender with the outputs lock poisoned: a sender that started
\* cannot be stored and StateLock is returned before the thread is spawned;
\* a sender that did not start needs no lock
start_ndi_sender_spawn_state_lock ==
    /\ calls["ndi_create"] > 0
    /\ "outputs" \in poisoned
    /\ \E started \in BOOLEAN :
          IF started
          THEN /\ ret' = Returned("start_ndi_sender", "Err")
               /\ UNCHANGED threads
          ELSE /\ ret' = Returned("start_ndi_sender", "Ok")
               /\ threads' = BagAdd(threads, "spawned")
    /\ calls' = BagRemove(calls, "ndi_create")
    /\ UNCHANGED <<pdf, pdf_document, presenter, annotations, pend, out, net_vars>>
    /\ UNCHANGED <<integration, outputs, callback, sinks, poisoned>>

\* stop_ndi_sender with the integration lock poisoned
stop_ndi_sender_state_lock ==
    /\ "integration" \in poisoned
    /\ ret' = Returned("stop_ndi_sender", "Err")
    /\ UNCHANGED <<pdf, pdf_document, presenter, annotations, pend, out, net_vars>>
    /\ UNCHANGED <<integration, outputs, calls, threads, callback, sinks, poisoned>>

\* stop_ndi_sender with the outputs lock poisoned: StateLock from its
\* second block
stop_ndi_sender_outputs_state_lock ==
    /\ calls["ndi_stop_outputs"] > 0
    /\ "outputs" \in poisoned
    /\ calls' = BagRemove(calls, "ndi_stop_outputs")
    /\ ret' = Returned("stop_ndi_sender", "Err")
    /\ UNCHANGED <<pdf, pdf_document, presenter, annotations, pend, out, net_vars>>
    /\ UNCHANGED <<integration, outputs, threads, callback, sinks, poisoned>>

\* Where run_capture_loop calls lock().unwrap(): on integration when the
\* target is not found and at each poll, on outputs in its teardown.
unwrap_panics(pc, outcome) ==
    \/ pc = "spawned" /\ outcome = "no_target" /\ "integration" \in poisoned
    \/ pc = "polling" /\ "integration" \in poisoned
    \/ pc = "teardown" /\ "outputs" \in poisoned

Panicked == [op |-> "run_capture_loop", result |-> "panicked", log |-> None]

\* run_capture_loop at an unwrap() of a poisoned lock: the capture thread
\* panics
run_capture_loop_panic(pc, outcome) ==
    /\ threads[pc] > 0
    /\ unwrap_panics(pc, outcome)
    /\ threads' = BagRemove(threads, pc)
    /\ ret' = Panicked
    /\ UNCHANGED <<pdf, pdf_document, presenter, annotations, pend, out, net_vars>>
    /\ UNCHANGED <<integration, outputs, calls, callback, sinks, poisoned>>

\* run_capture_loop, let _ = state.reset_frame_counters() with the
\* integration lock poisoned: the Err is dropped and the thread returns
run_capture_loop_reset_state_lock ==
    /\ threads["reset"] > 0
    /\ "integration" \in poisoned
    /\ threads' = BagRemove(threads, "reset")
    /\ UNCHANGED <<pdf, pdf_document, presenter, annotations, pend, out, net_vars>>
    /\ UNCHANGED <<integration, outputs, calls, callback, ret, sinks, poisoned>>

\* The connection whose commands meet the poisoned locks.
PoisonConn == "A"

\* An operation on its ordinary path: the locks it takes are not poisoned.
Unpoisoned(ls) == ls \cap poisoned = {}

NextPoison ==
    \/ \E l \in Locks : lock_poisoned(l)
    \/ \E cmd \in ProtocolCmds : handle_command_state_lock(PoisonConn, cmd)
    \/ \E p \in Paths, n \in PageCounts : open_pdf_state_lock(p, n)
    \/ start_ndi_sender_state_lock
    \/ start_ndi_sender_spawn_state_lock
    \/ stop_ndi_sender_state_lock
    \/ stop_ndi_sender_outputs_state_lock
    \/ \E pc \in ThreadPcs, outcome \in OutcomesOfStart :
           run_capture_loop_panic(pc, outcome)
    \/ run_capture_loop_reset_state_lock
    \/ Unpoisoned({"pdf", "pdf_document"})
           /\ \E p \in Paths, n \in PageCounts : open_pdf(p, n)
    \/ Unpoisoned({"pdf", "presenter"}) /\ handle_get_state(PoisonConn)
    \/ handle_ping(PoisonConn)
    \/ Unpoisoned({"integration"}) /\ start_ndi_sender
    \/ Unpoisoned({"outputs"}) /\ start_ndi_sender_spawn
    \/ Unpoisoned({"integration"}) /\ stop_ndi_sender
    \/ Unpoisoned({"outputs"}) /\ stop_ndi_sender_outputs
    \/ \E outcome \in OutcomesOfStart :
           /\ ~unwrap_panics("spawned", outcome)
           /\ run_capture_loop_start(outcome)
    \/ Unpoisoned({"integration"}) /\ run_capture_loop_poll
    \/ Unpoisoned({"outputs"}) /\ run_capture_loop_stop_outputs
    \/ Unpoisoned({"integration"}) /\ run_capture_loop_reset

SpecPoison == Init /\ [][NextPoison]_vars

---------------------------------------------------------------------------
(* WebSocketServer (websocket/server.rs): the ClientMap, one               *)
(* handle_connection task per accepted socket with its send_task, and      *)
(* broadcast as the host commands of commands/websocket.rs call it.        *)

\* Most messages written to one socket.
MaxMessages == 3

\* IntegrationMessage::connection_status, IntegrationMessage::pong,
\* IntegrationMessage::error, the tungstenite Pong frame, and a message a
\* host command broadcasts
ConnectionStatus(connected, client_count) ==
    [type |-> "connection_status", connected |-> connected,
     clientCount |-> client_count]
PongMessage == [type |-> "pong"]
ErrorMessage == [type |-> "error"]
PongFrame == [type |-> "Pong frame"]
PageChangedMessage == [type |-> "page_changed"]

\* What ws_receiver.next() can yield: a text frame that parses as a ping, as
\* a command or as another message type, a text frame that does not parse,
\* a Ping, a Close, a Binary or Pong frame, a transport error.
Frames == {"text_ping", "text_command", "text_other", "text_malformed",
           "Ping", "Close", "Binary", "Err"}

\* The fields this server never touches.
server_frame == <<pdf, pdf_document, presenter, annotations, pend, out,
                  integration, outputs, calls, threads, callback, ret, sinks,
                  poisoned, broadcast_sender, backlog, inbox, dispatch>>

\* handle_connection up to "Register client": accept_async fails and the
\* task returns, or the client is inserted under its new uuid
accept_connection(c, handshake) ==
    /\ conn[c] = "none"
    /\ IF handshake
       THEN /\ clients' = clients \cup {c}
            /\ conn' = [conn EXCEPT ![c] = "registered"]
       ELSE /\ conn' = [conn EXCEPT ![c] = "closed"]
            /\ UNCHANGED clients
    /\ UNCHANGED <<rx, ws, received, writer, locking>>
    /\ UNCHANGED server_frame

\* handle_connection, "Send initial connection status" with the client count
\* read then, and the spawn of send_task
send_connection_status(c) ==
    /\ conn[c] = "registered"
    /\ ws' = [ws EXCEPT ![c] =
                 Append(@, ConnectionStatus(TRUE, Cardinality(clients)))]
    /\ conn' = [conn EXCEPT ![c] = "open"]
    /\ UNCHANGED <<clients, rx, received, writer, locking>>
    /\ UNCHANGED server_frame

\* send_task: the next message of the channel goes to the socket
send_task(c) ==
    /\ conn[c] \in {"open", "closing"}
    /\ rx[c] # << >>
    /\ Len(ws[c]) < MaxMessages
    /\ ws' = [ws EXCEPT ![c] = Append(@, Head(rx[c]))]
    /\ rx' = [rx EXCEPT ![c] = Tail(@)]
    /\ UNCHANGED <<clients, conn, received, writer, locking>>
    /\ UNCHANGED server_frame

\* clients.read().await.get(client_id) and client.send(msg)
send_to_self(queues, c, msg) ==
    IF c \in clients THEN [queues EXCEPT ![c] = Append(@, msg)] ELSE queues

\* handle_text_message on a text that is not an IntegrationMessage: Err is
\* returned at the `?` and the loop prints it; nothing is sent
response_to_malformed(c) == rx

\* What the receive loop queues for its own client on a frame:
\* handle_text_message for a text frame, Pong for a Ping frame
queued_on_frame(c, frame) ==
    IF frame = "text_ping" THEN send_to_self(rx, c, PongMessage)
    ELSE IF frame = "Ping" THEN send_to_self(rx, c, PongFrame)
    ELSE IF frame = "text_malformed" THEN response_to_malformed(c)
    ELSE rx

\* The receive loop on one item of ws_receiver: Close and Err break out of
\* the loop, everything else is handled and the loop goes on
receive(c, frame) ==
    /\ conn[c] = "open"
    /\ received[c] < MaxMessages
    /\ Len(rx[c]) + Len(ws[c]) < MaxMessages
    /\ received' = [received EXCEPT ![c] = @ + 1]
    /\ rx' = queued_on_frame(c, frame)
    /\ conn' = IF frame \in {"Close", "Err"}
               THEN [conn EXCEPT ![c] = "closing"]
               ELSE conn
    /\ UNCHANGED <<clients, ws, writer, locking>>
    /\ UNCHANGED server_frame

\* A cleanup that empties the ClientMap
registry_without_all(cs, c) == {}

\* "Cleanup": clients.remove(&client_id)
registry_without(cs, c) == cs \ {c}

\* handle_connection after the loop: the entry is removed and send_task
\* aborted, what is still queued is dropped with the channel
cleanup(c) ==
    /\ conn[c] = "closing"
    /\ clients' = registry_without(clients, c)
    /\ rx' = [rx EXCEPT ![c] = << >>]
    /\ conn' = [conn EXCEPT ![c] = "closed"]
    /\ UNCHANGED <<ws, received, writer, locking>>
    /\ UNCHANGED server_frame

\* WebSocketServer::broadcast: the message is sent on the channel of every
\* client in the map
server_broadcast(msg) ==
    /\ \A k \in clients : Len(rx[k]) + Len(ws[k]) < MaxMessages
    /\ rx' = [k \in Conns |-> IF k \in clients THEN Append(rx[k], msg) ELSE rx[k]]
    /\ UNCHANGED <<clients, ws, conn, received, writer, locking>>
    /\ UNCHANGED server_frame

NextServer ==
    \/ \E c \in Conns, handshake \in BOOLEAN : accept_connection(c, handshake)
    \/ \E c \in Conns : send_connection_status(c)
    \/ \E c \in Conns : send_task(c)
    \/ \E c \in Conns, frame \in Frames : receive(c, frame)
    \/ \E c \in Conns : cleanup(c)
    \/ server_broadcast(PageChangedMessage)

SpecServer == Init /\ [][NextServer]_vars

---------------------------------------------------------------------------
(* The broadcast channel: AppState::set_broadcast_sender and                *)
(* AppState::broadcast (state/mod.rs), save_annotations as the host command *)
(* that publishes on it, and the connection loops that subscribe to it,     *)
(* answer their client and re-publish what handle_command returned.         *)

\* Capacity of the broadcast channel: the events a receiver can have
\* waiting before it loses the oldest.
ChannelCapacity == 1

\* Most events one client is sent, those waiting in its receiver counted in.
MaxDelivered == 2

\* What travels on the channel: the event, with who published it and, for a
\* connection, the place of the direct response in what its client was sent.
Message(e, origin, seq) == [event |-> e, origin |-> origin, seq |-> seq]

\* What a client is sent: a direct response or an event taken from the
\* channel.
Response(c, e, seq) == [event |-> e, via |-> "response", origin |-> c, seq |-> seq]
Forwarded(m) == [event |-> m.event, via |-> "broadcast", origin |-> m.origin, seq |-> m.seq]

\* broadcast::Sender::send as one receiver sees it: the value is queued, and
\* a receiver whose queue is full loses its oldest value and will be told so
receiver_after_send(r, m) ==
    IF ~r.subscribed THEN r
    ELSE IF Len(r.queue) < ChannelCapacity THEN [r EXCEPT !.queue = Append(@, m)]
    ELSE [r EXCEPT !.queue = Append(Tail(@), m), !.lagged = TRUE]

\* broadcast::Sender::send: Err when there is no receiver, else Ok; it never
\* waits
channel_send(b, m) ==
    [backlog |-> [c \in Conns |-> receiver_after_send(b[c], m)],
     result |-> IF \E c \in Conns : b[c].subscribed THEN "Ok" ELSE "Err"]

\* A broadcast that returns what send returned, and an error while the
\* OnceLock is empty
broadcast_propagating(sender, b, m) ==
    IF sender THEN channel_send(b, m) ELSE [backlog |-> b, result |-> "Err"]

\* AppState::broadcast: `if let Some(sender) = ... { let _ = sender.send(event); } Ok(())`
broadcast(sender, b, m) ==
    [backlog |-> IF sender THEN channel_send(b, m).backlog ELSE b,
     result |-> "Ok"]

\* The annotation maps save_annotations is called with.
SavedAnnotations == {MapPut(EmptyMap, 1, <<"X">>)}

AnnotationsSaved(anns) == [type |-> "AnnotationsUpdated", annotations |-> anns]

\* The strings save_annotations puts in the store for a map of annotations
serialized(anns) ==
    [p \in DOMAIN anns |-> [i \in 1..Len(anns[p]) |-> to_string(anns[p][i])]]

\* What the client of k has been sent and will be sent once a connection c
\* (or the host, None) has had a command handled and its event published.
sent_after(k, c) ==
    Len(inbox[k])
    + (IF k = c THEN 1 ELSE 0)
    + (IF backlog[k].subscribed
       THEN Min(Len(backlog[k].queue) + 1, ChannelCapacity) ELSE 0)

\* A publication by c is begun only when no client gets more than
\* MaxDelivered events by it.
Room(c) == \A k \in Conns : sent_after(k, c) <= MaxDelivered

\* The fields neither the channel nor a connection loop touches.
fabric_frame == <<pdf, pdf_document, presenter, pend, integration, outputs,
                  calls, threads, callback, sinks, poisoned, clients, rx, ws,
                  conn, received, writer, locking>>

\* lib.rs setup: the sender start_server returned is stored in the OnceLock;
\* a second set is refused and the first sender stays
set_broadcast_sender ==
    /\ broadcast_sender' = TRUE
    /\ ret' = IF broadcast_sender
              THEN ReturnedWarned("set_broadcast_sender", "Err")
              ELSE Returned("set_broadcast_sender", "Ok")
    /\ UNCHANGED <<annotations, out, backlog, inbox, dispatch>>
    /\ UNCHANGED fabric_frame

\* commands/annotations.rs save_annotations: refused without an open document
\* and when the sidecar file cannot be written; else the store is replaced
\* and the update is published, a failed publication being logged only
save_annotations(anns, written) ==
    /\ Room(None)
    /\ IF pdf.current_file = None \/ ~written
       THEN /\ ret' = Returned("save_annotations", "Err")
            /\ UNCHANGED <<annotations, backlog>>
       ELSE LET b == broadcast(broadcast_sender, backlog,
                               Message(AnnotationsSaved(anns), "host", 0)) IN
            /\ annotations' = serialized(anns)
            /\ backlog' = b.backlog
            /\ ret' = IF b.result = "Ok"
                      THEN Returned("save_annotations", "Ok")
                      ELSE ReturnedWarned("save_annotations", "Ok")
    /\ UNCHANGED <<out, broadcast_sender, inbox, dispatch>>
    /\ UNCHANGED fabric_frame

\* A connection is accepted: its loop takes a receiver on the channel
subscribe(c) ==
    /\ ~backlog[c].subscribed
    /\ backlog' = [backlog EXCEPT ![c].subscribed = TRUE]
    /\ UNCHANGED <<annotations, out, ret, broadcast_sender, inbox, dispatch>>
    /\ UNCHANGED fabric_frame

\* handlers.rs handle_toggle_presenter
handle_toggle_presenter(c) ==
    /\ pend[c] = NoPend
    /\ LET new_active == ~presenter.is_active IN
       /\ presenter' = [presenter EXCEPT !.is_active = new_active]
       /\ out' = Respond(c, TogglePresenterCmd, PresenterChanged(new_active))
    /\ UNCHANGED <<pdf, pdf_document, annotations, pend>>
    /\ UNCHANGED <<capture_vars, net_vars>>

\* A loop that re-publishes before it answers
loop_order_publish_first == <<"republish", "respond">>

\* What a connection loop does with the event handle_command returned, in
\* this order: "the engine emits the direct response first, then
\* re-publishes for broadcast"
loop_order == <<"respond", "republish">>

next_step == loop_order[Len(dispatch) + 1]

\* The loop's position after one more step: after the last one the command
\* is done with
step_taken(step) ==
    IF Len(dispatch) + 1 = Len(loop_order)
    THEN /\ dispatch' = << >>
         /\ out' = NoOut
    ELSE /\ dispatch' = Append(dispatch, step)
         /\ UNCHANGED out

\* The event handle_command returned is sent to the client of the
\* connection that issued the command
respond(c) ==
    /\ out.conn = c
    /\ next_step = "respond"
    /\ inbox' = [inbox EXCEPT ![c] = Append(@, Response(c, out.event, Len(@) + 1))]
    /\ step_taken("respond")
    /\ UNCHANGED <<annotations, ret, broadcast_sender, backlog>>
    /\ UNCHANGED fabric_frame

\* The place of the direct response to the command in progress in what the
\* client of c was sent, once it has been sent
response_seq(c) == IF "respond" \in {dispatch[i] : i \in 1..Len(dispatch)}
                   THEN Len(inbox[c]) ELSE Len(inbox[c]) + 1

\* The event is published on the channel when should_broadcast says so
republish(c) ==
    /\ out.conn = c
    /\ next_step = "republish"
    /\ backlog' = IF out.broadcast
                  THEN channel_send(backlog,
                                    Message(out.event, c, response_seq(c))).backlog
                  ELSE backlog
    /\ step_taken("republish")
    /\ UNCHANGED <<annotations, ret, broadcast_sender, inbox>>
    /\ UNCHANGED fabric_frame

\* The loop's other source: the next value of its receiver goes to its
\* client; a receiver that lost values is told so once and goes on with the
\* oldest value it still has
forward(c) ==
    /\ backlog[c].subscribed
    /\ out.conn # c
    /\ IF backlog[c].lagged
       THEN /\ backlog' = [backlog EXCEPT ![c].lagged = FALSE]
            /\ UNCHANGED inbox
       ELSE /\ backlog[c].queue # << >>
            /\ inbox' = [inbox EXCEPT ![c] = Append(@, Forwarded(Head(backlog[c].queue)))]
            /\ backlog' = [backlog EXCEPT ![c].queue = Tail(@)]
    /\ UNCHANGED <<annotations, out, ret, broadcast_sender, dispatch>>
    /\ UNCHANGED fabric_frame

\* A connection reads its next command when it has a loop, no command is in
\* progress and the bound leaves room.
Reads(c) == backlog[c].subscribed /\ out = NoOut /\ Room(c)

\* Pages asked for and zoom factors set on the channel's connections.
FabricPages == {MaxPages, MaxPages + 1}
FabricZooms == {700}

NextFabric ==
    \/ \E c \in Conns : subscribe(c)
    \/ \E c \in Conns, n \in FabricPages : Reads(c) /\ go_to_page(c, n)
    \/ \E c \in Conns, z \in FabricZooms : Reads(c) /\ handle_set_zoom(c, z)
    \/ \E c \in Conns : Reads(c) /\ handle_toggle_presenter(c)
    \/ \E c \in Conns : Reads(c) /\ handle_ping(c)
    \/ \E c \in Conns : respond(c)
    \/ \E c \in Conns : republish(c)
    \/ \E c \in Conns : forward(c)
    \/ \E p \in Paths : open_pdf(p, MaxPages)

SpecFabric == Init /\ [][NextFabric]_vars

\* Each connection loop is a task of its own that is scheduled again and
\* again: it goes on with the command it is handling and takes what its
\* receiver has.
SpecFabricFair ==
    /\ SpecFabric
    /\ \A c \in Conns : WF_vars(respond(c))
    /\ \A c \in Conns : WF_vars(republish(c))
    /\ \A c \in Conns : WF_vars(forward(c))

\* The host side of the channel: the setup, the host commands that write the
\* store, and the connections that take what is published.
NextPublish ==
    \/ ~broadcast_sender /\ set_broadcast_sender
    \/ \E c \in Conns : subscribe(c)
    \/ \E c \in Conns : forward(c)
    \/ \E p \in Paths, n \in PageCounts : open_pdf(p, n)
    \/ close_pdf
    \/ \E n \in PageInputs : set_presenter_page(n)
    \/ \E anns \in SavedAnnotations, w \in BOOLEAN : save_annotations(anns, w)

SpecPublish == Init /\ [][NextPublish]_vars

---------------------------------------------------------------------------
(* Handlers of different connections in parallel: each connection loop is   *)
(* a task of its own and handle_command takes no lock of its own, so        *)
(* between the accessor calls of one handler (get_*_state, update_*_state)  *)
(* and its return the handlers of other connections run.                    *)

\* A handler between its accessor calls: the event it will return, already
\* built from its snapshot or its argument, and whether the update is still
\* to be made ("write") or made ("return").
InHandler(stage, cmd, e) ==
    [some |-> TRUE, page |-> 0, total_pages |-> 0,
     stage |-> stage, cmd |-> cmd, event |-> e]

Stage(c) == IF "stage" \in DOMAIN pend[c] THEN pend[c].stage ELSE None

\* A handler up to its update: an error is returned at once
begin_handler(c, cmd, d, e) ==
    /\ pend[c] = NoPend
    /\ IF d.ok
       THEN /\ pend' = [pend EXCEPT ![c] = InHandler("write", cmd, e)]
            /\ UNCHANGED out
       ELSE /\ out' = Respond(c, cmd, ErrorEvent(d.message))
            /\ UNCHANGED pend
    /\ UNCHANGED <<pdf, pdf_document, presenter, annotations>>
    /\ UNCHANGED <<capture_vars, net_vars>>

\* handle_next_page: get_pdf_state and the checks
next_page_begin(c) ==
    LET d == next_page_decision(pdf) IN
    begin_handler(c, NextPageCmd, d, PageChanged(d.page, d.total_pages))

\* handle_go_to_page: get_pdf_state and the checks
go_to_page_begin(c, page) ==
    LET d == go_to_page_decision(pdf, page) IN
    begin_handler(c, GoToPageCmd(page), d, PageChanged(d.page, d.total_pages))

\* handle_set_zoom: the clamp; nothing is read
set_zoom_begin(c, zoom) ==
    begin_handler(c, SetZoomCmd(zoom), Accept(0, 0), ZoomChanged(set_zoom_value(zoom)))

\* handle_toggle_presenter: new_active = !presenter_state.is_active
toggled(p) == ~p.is_active

\* handle_toggle_presenter: get_presenter_state
toggle_presenter_begin(c) ==
    begin_handler(c, TogglePresenterCmd, Accept(0, 0), PresenterChanged(toggled(presenter)))

\* An update_pdf_state whose closure stores nothing
pdf_state_kept(s, e) == s

\* What the closure passed to update_pdf_state stores
pdf_state_updated(s, e) ==
    IF e.type = "PageChanged" THEN [s EXCEPT !.current_page = e.page]
    ELSE IF e.type = "ZoomChanged" THEN [s EXCEPT !.zoom_level = e.zoom]
    ELSE s

\* What the closure passed to update_presenter_state stores
presenter_state_updated(s, e) ==
    IF e.type = "PresenterChanged" THEN [s EXCEPT !.is_active = e.active] ELSE s

\* The order of the write-lock acquisitions of update_pdf_state: who made
\* the last update of the page and of the zoom level
last_write(w, c, e) ==
    IF e.type = "PageChanged" THEN [w EXCEPT !.page = c]
    ELSE IF e.type = "ZoomChanged" THEN [w EXCEPT !.zoom = c]
    ELSE w

\* update_pdf_state / update_presenter_state of a handler: the value decided
\* on is stored under the write lock
update_state(c) ==
    /\ Stage(c) = "write"
    /\ pdf' = pdf_state_updated(pdf, pend[c].event)
    /\ presenter' = presenter_state_updated(presenter, pend[c].event)
    /\ pend' = [pend EXCEPT ![c].stage = "return"]
    /\ writer' = last_write(writer, c, pend[c].event)
    /\ UNCHANGED <<pdf_document, annotations, out>>
    /\ UNCHANGED <<capture_vars, broadcast_sender, backlog, inbox, dispatch,
                   clients, rx, ws, conn, received, locking>>

\* The handler returns its event to the connection loop
return_event(c) ==
    /\ Stage(c) = "return"
    /\ out' = Respond(c, pend[c].cmd, pend[c].event)
    /\ pend' = [pend EXCEPT ![c] = NoPend]
    /\ UNCHANGED <<pdf, pdf_document, presenter, annotations>>
    /\ UNCHANGED <<capture_vars, net_vars>>

\* TogglePresenter commands of every connection
NextToggle ==
    \/ \E c \in Conns : toggle_presenter_begin(c)
    \/ \E c \in Conns : update_state(c)
    \/ \E c \in Conns : return_event(c)
    \/ \E c \in Conns : handle_get_state(c)
    \/ \E c \in Conns : handle_ping(c)

SpecToggle == InitNav /\ [][NextToggle]_vars

\* NextPage commands of every connection on a loaded document
NextNextPage ==
    \/ \E c \in Conns : next_page_begin(c)
    \/ \E c \in Conns : update_state(c)
    \/ \E c \in Conns : return_event(c)

SpecNextPage == InitNav /\ [][NextNextPage]_vars

\* Zoom factors set by connections in parallel.
ParallelZooms == {10, 20}

\* GoToPage and SetZoom commands of every connection on a loaded document
NextGoTo ==
    \/ \E c \in Conns, n \in 1..MaxPages : go_to_page_begin(c, n)
    \/ \E c \in Conns, z \in ParallelZooms : set_zoom_begin(c, z)
    \/ \E c \in Conns : update_state(c)
    \/ \E c \in Conns : return_event(c)

SpecGoTo == InitNav /\ [][NextGoTo]_vars

---------------------------------------------------------------------------
(* The locks of AppState as the operations take them. Every accessor of    *)
(* state/mod.rs takes one lock and drops it when it returns; a block of a  *)
(* command holds its guard to the closing brace; the frame callback holds  *)
(* the outputs guard to its end. An early return cuts a sequence short.    *)

\* The field group a lock of AppState guards; the sink registry and the
\* websocket record are no field groups of the store
FieldGroups == {"document", "presenter", "annotations", "integration"}

group_of(l) ==
    IF l \in {"pdf", "pdf_document"} THEN "document"
    ELSE IF l \in FieldGroups THEN l
    ELSE None

Lock(l, mode) == [step |-> "lock", lock |-> l, mode |-> mode]
Unlock(l) == [step |-> "unlock", lock |-> l, mode |-> None]

\* One RwLock accessor or one Mutex block: the lock is taken and dropped
Reading(l) == <<Lock(l, "read"), Unlock(l)>>
Writing(l) == <<Lock(l, "write"), Unlock(l)>>

\* handle_get_state reading the presenter group inside the read of the
\* document group
handle_get_state_locks_nested ==
    <<Lock("pdf", "read"), Lock("presenter", "read"), Unlock("presenter"),
      Unlock("pdf")>>

\* handle_get_state: get_pdf_state, then get_presenter_state
handle_get_state_locks == Reading("pdf") \o Reading("presenter")

\* websocket/handlers.rs: the accessor calls of each handler, in order
handler_locks(cmd) ==
    IF cmd \in {"NextPage", "PreviousPage", "GoToPage"}
    THEN Reading("pdf") \o Writing("pdf")
    ELSE IF cmd = "SetZoom" THEN Writing("pdf")
    ELSE IF cmd = "GetState" THEN handle_get_state_locks
    ELSE IF cmd = "TogglePresenter" THEN Reading("presenter") \o Writing("presenter")
    ELSE Writing("annotations")

HandlerOps ==
    {"NextPage", "PreviousPage", "GoToPage", "SetZoom", "GetState",
     "TogglePresenter", "AddAnnotation", "ClearAnnotations"}

\* commands/pdf.rs: open_pdf and close_pdf update the record and then the
\* document; the queries read the record
pdf_locks(op) ==
    IF op \in {"open_pdf", "close_pdf"}
    THEN Writing("pdf") \o Writing("pdf_document")
    ELSE Reading("pdf")

\* commands/presenter.rs
presenter_locks(op) ==
    IF op = "set_presenter_page" THEN Writing("pdf") \o Reading("pdf")
    ELSE IF op = "get_presenter_state" THEN Reading("pdf")
    ELSE Writing("presenter")

\* commands/annotations.rs: the open document is read first, the map is
\* locked after the file has been written, read or removed
annotations_locks(op) ==
    IF op = "get_page_annotations" THEN Writing("annotations")
    ELSE Reading("pdf") \o Writing("annotations")

\* commands/ndi.rs: the blocks of the capture commands
capture_locks(op) ==
    IF op = "get_capture_status" THEN Writing("integration")
    ELSE IF op = "start_syphon_output"
    THEN Writing("integration") \o Writing("outputs") \o Writing("integration")
    ELSE Writing("integration") \o Writing("outputs")

PdfOps == {"open_pdf", "close_pdf", "get_pdf_page_count"}
PresenterOps == {"open_presenter_mode", "close_presenter_mode",
                 "set_presenter_page", "get_presenter_state"}
AnnotationsOps == {"save_annotations", "load_annotations", "clear_annotations",
                   "get_page_annotations"}
CaptureOps == {"start_ndi_sender", "stop_ndi_sender", "start_syphon_output",
               "stop_syphon_output", "get_capture_status"}

\* run_capture_loop: the poll that finds the flag cleared, "Stop all
\* outputs", reset_frame_counters
run_capture_loop_locks ==
    Writing("integration") \o Writing("outputs") \o Writing("integration")

\* The frame callback: increment_frames_captured, then the outputs guard
\* held over both sends and both increment_frames_sent
frame_callback_locks ==
    Writing("integration") \o <<Lock("outputs", "write")>>
        \o Writing("integration") \o Writing("integration")
        \o <<Unlock("outputs")>>

\* The lock operations of an operation
lock_steps(op) ==
    IF op \in HandlerOps THEN handler_locks(op)
    ELSE IF op \in PdfOps THEN pdf_locks(op)
    ELSE IF op \in PresenterOps THEN presenter_locks(op)
    ELSE IF op \in AnnotationsOps THEN annotations_locks(op)
    ELSE IF op \in CaptureOps THEN capture_locks(op)
    ELSE IF op = "run_capture_loop" THEN run_capture_loop_locks
    ELSE frame_callback_locks

\* What each task runs
ops_of(t) ==
    IF t = "connection" THEN HandlerOps
    ELSE IF t = "host" THEN PdfOps \union PresenterOps \union AnnotationsOps
                              \union CaptureOps
    ELSE IF t = "capture" THEN {"run_capture_loop"}
    ELSE {"frame_callback"}

\* The lock operation a task is at
Running(t) == locking[t].op # None
at(t) == lock_steps(locking[t].op)[locking[t].pc]

\* Who holds a lock, and in which mode
Holders(l, mode) ==
    {t \in LockTasks : [lock |-> l, mode |-> mode] \in locking[t].held}

\* RwLock and Mutex: a writer excludes everybody, a reader the writers
Free(l, mode) ==
    /\ Holders(l, "write") = {}
    /\ mode = "write" => Holders(l, "read") = {}

lock_frame ==
    /\ UNCHANGED <<pdf, pdf_document, presenter, annotations, pend, out>>
    /\ UNCHANGED <<capture_vars, broadcast_sender, backlog, inbox, dispatch,
                   clients, rx, ws, conn, received, writer>>

\* A task starts an operation
begin_operation(t, op) ==
    /\ ~Running(t)
    /\ locking' = [locking EXCEPT ![t] = [op |-> op, pc |-> 1, held |-> {}]]
    /\ lock_frame

\* read(), write() or lock() returns the guard
acquire(t) ==
    /\ Running(t)
    /\ at(t).step = "lock"
    /\ Free(at(t).lock, at(t).mode)
    /\ locking' = [locking EXCEPT
                      ![t].held = @ \union {[lock |-> at(t).lock, mode |-> at(t).mode]},
                      ![t].pc = @ + 1]
    /\ lock_frame

\* The guard is dropped; after the last one the operation returns
release(t) ==
    /\ Running(t)
    /\ at(t).step = "unlock"
    /\ locking' = [locking EXCEPT ![t] =
                      IF locking[t].pc = Len(lock_steps(locking[t].op))
                      THEN Idle
                      ELSE [@ EXCEPT !.held = {h \in @ : h.lock # at(t).lock},
                                     !.pc = @ + 1]]
    /\ lock_frame

NextLocks ==
    \/ \E t \in LockTasks : \E op \in ops_of(t) : begin_operation(t, op)
    \/ \E t \in LockTasks : acquire(t)
    \/ \E t \in LockTasks : release(t)

SpecLocks == Init /\ [][NextLocks]_vars

---------------------------------------------------------------------------
(* Capture started and stopped: the two commands, the capture threads and  *)
(* the frames of the started streams, without the Syphon commands: no     *)
(* Syphon server is registered and the callback finds none to send to.    *)

NextStop ==
    \/ start_ndi_sender
    \/ start_ndi_sender_spawn
    \/ stop_ndi_sender
    \/ stop_ndi_sender_outputs
    \/ \E outcome \in OutcomesOfStart : run_capture_loop_start(outcome)
    \/ run_capture_loop_poll
    \/ run_capture_loop_stop_outputs
    \/ run_capture_loop_reset
    \/ \E empty \in BOOLEAN : frame_callback(empty)
    \/ frame_callback_ndi
    \/ frame_callback_ndi_sent
    \/ \E published \in BOOLEAN : frame_callback_syphon(published)

SpecStop == Init /\ [][NextStop]_vars

\* A capture thread is an OS thread and the capture queue a dispatch queue:
\* a thread goes on polling every 100 ms and through its teardown, and a
\* callback that has begun runs to its end. Nothing makes the host call a
\* command.
SpecStopFair ==
    /\ SpecStop
    /\ WF_vars(\E outcome \in OutcomesOfStart : run_capture_loop_start(outcome))
    /\ WF_vars(run_capture_loop_poll)
    /\ WF_vars(run_capture_loop_stop_outputs)
    /\ WF_vars(run_capture_loop_reset)
    /\ WF_vars(frame_callback_ndi)
    /\ WF_vars(frame_callback_ndi_sent)
    /\ WF_vars(\E published \in BOOLEAN : frame_callback_syphon(published))

---------------------------------------------------------------------------
(* Claims on the document group *)

InDocument(s) == 1 <= s.current_page /\ s.current_page <= s.total_pages

NavTypes == {"NextPage", "PreviousPage", "GoToPage"}

\* C1: in every reachable state of the session, whatever the interleaving of
\* NextPage, PreviousPage, GoToPage, open, close and set_presenter_page, a
\* loaded document has 1 <= current_page <= total_pages.
C1_LoadedPageInDocument == pdf.is_loaded => InDocument(pdf)

\* C2: from a loaded document with at least one page and a page inside it,
\* navigation commands processed one at a time keep the stored page inside
\* [1, total_pages].
C2_NavStaysInDocument == pdf.is_loaded /\ pdf.total_pages >= 1 /\ InDocument(pdf)

\* C2 witness: NextPage has moved the page onto the last page of a document
\* of several pages.
C2_Witness ==
    /\ out.cmd = NextPageCmd
    /\ out.event = PageChanged(pdf.total_pages, pdf.total_pages)
    /\ pdf.current_page = pdf.total_pages
    /\ pdf.total_pages >= 2

\* C3: GoToPage(n) with n < 1 or n > total_pages on a loaded document answers
\* the issuing connection with an Error event, changes no field of the store,
\* leaves no write pending and is not re-published to other connections.
C3_GoToPageOutOfRange ==
    [][\A c \in Conns, n \in PageInputs :
        (/\ handle_go_to_page(c, n)
         /\ pdf.is_loaded
         /\ (n < 1 \/ n > pdf.total_pages))
        => /\ out'.conn = c
           /\ out'.cmd = GoToPageCmd(n)
           /\ out'.event.type = "Error"
           /\ ~out'.broadcast
           /\ UNCHANGED <<pdf, pdf_document, presenter, annotations, pend>>]_vars

\* C3 witness: a page above the document was asked for and refused.
C3_Witness ==
    /\ pdf.is_loaded
    /\ pdf.total_pages >= 1
    /\ out.cmd.type = "GoToPage"
    /\ out.cmd.page > pdf.total_pages
    /\ out.event = ErrorEvent("Page is out of range")

\* C4: NextPage on the last page and PreviousPage on the first page answer
\* with an Error event (already last, already first) and write nothing.
C4_EdgeIsError ==
    [][\A c \in Conns :
        /\ (handle_next_page(c) /\ pdf.is_loaded /\ pdf.current_page = pdf.total_pages)
           => /\ out' = Respond(c, NextPageCmd, ErrorEvent("Already on last page"))
              /\ UNCHANGED <<pdf, pend>>
        /\ (handle_previous_page(c) /\ pdf.is_loaded /\ pdf.current_page = 1)
           => /\ out' = Respond(c, PreviousPageCmd, ErrorEvent("Already on first page"))
              /\ UNCHANGED <<pdf, pend>>]_vars

\* C4 witness: PreviousPage was refused on the first page of a document.
C4_Witness ==
    /\ pdf.is_loaded
    /\ pdf.total_pages >= 2
    /\ pdf.current_page = 1
    /\ out.cmd = PreviousPageCmd
    /\ out.event = ErrorEvent("Already on first page")

\* C5: NextPage, PreviousPage and GoToPage with no document loaded answer
\* with an Error event and leave page, total_pages, zoom, is_loaded and path
\* as they were, with no write pending.
C5_UnloadedIsError ==
    [][\A c \in Conns :
        (/\ ~pdf.is_loaded
         /\ \/ handle_next_page(c)
            \/ handle_previous_page(c)
            \/ \E n \in PageInputs : handle_go_to_page(c, n))
        => /\ out'.conn = c
           /\ out'.cmd.type \in NavTypes
           /\ out'.event.type = "Error"
           /\ UNCHANGED <<pdf, pend>>]_vars

\* C5 witness: NextPage was refused while no document was open.
C5_Witness ==
    /\ ~pdf.is_loaded
    /\ out.cmd = NextPageCmd
    /\ out.event = ErrorEvent("No PDF is currently open")

\* C6: SetZoom(z) is answered with ZoomChanged for every z, stores z clamped
\* into [0.1, 5.0] and reports the stored value; the stored zoom is inside
\* [0.1, 5.0] in every reachable state.
C6_ZoomClamped ==
    /\ [](ZOOM_MIN <= pdf.zoom_level /\ pdf.zoom_level <= ZOOM_MAX)
    /\ [][\A c \in Conns, z \in ZoomInputs :
            handle_set_zoom(c, z)
            => /\ out'.conn = c
               /\ out'.event = ZoomChanged(pdf'.zoom_level)
               /\ (z < ZOOM_MIN => pdf'.zoom_level = ZOOM_MIN)
               /\ (z > ZOOM_MAX => pdf'.zoom_level = ZOOM_MAX)
               /\ (ZOOM_MIN <= z /\ z <= ZOOM_MAX => pdf'.zoom_level = z)]_vars

\* C6 witness: a zoom above the range was sent and the upper limit stored.
C6_Witness ==
    /\ out.cmd.type = "SetZoom"
    /\ out.cmd.zoom > ZOOM_MAX
    /\ out.event = ZoomChanged(ZOOM_MAX)
    /\ pdf.zoom_level = ZOOM_MAX

\* The JSON values of a sequence of stored texts.
RECURSIVE values_of(_)
values_of(ts) == IF ts = << >> THEN << >> ELSE <<from_str(Head(ts))>> \o values_of(Tail(ts))

\* C7: each AddAnnotation(page, v) puts v at the end of the page's stored
\* sequence, keeping what was stored before it in its order, answers with the
\* partial update for that page, and leaves every other page's sequence
\* unchanged.
C7_AddAppends ==
    [][\A c \in Conns, p \in AnnPages, v \in AnnValues :
        handle_add_annotation(c, p, v)
        => /\ values_of(MapGet(annotations', p))
                = Append(values_of(MapGet(annotations, p)), v)
           /\ \A q \in AnnPages \cup DOMAIN annotations \cup DOMAIN annotations' :
                 q # p => MapGet(annotations', q) = MapGet(annotations, q)
           /\ out' = Respond(c, AddAnnotationCmd(p, v), AnnotationsUpdated(p, <<v>>))]_vars

\* C7 witness: X then Y were added to page 3, which reads back as [X, Y],
\* while page 1 holds something else.
C7_Witness ==
    /\ values_of(MapGet(annotations, 3)) = <<"X", "Y">>
    /\ get_page_annotations(annotations, 3) = <<"X", "Y">>
    /\ MapGet(annotations, 1) # << >>
    /\ out.cmd = AddAnnotationCmd(3, "Y")

\* C8: ClearAnnotations leaves the store without an entry for any page,
\* answers AnnotationsCleared, and changes neither the document nor the
\* presenter state.
C8_ClearEmpties ==
    [][\A c \in Conns :
        handle_clear_annotations(c)
        => /\ DOMAIN annotations' = {}
           /\ out' = Respond(c, ClearAnnotationsCmd, AnnotationsCleared)
           /\ UNCHANGED <<pdf, pdf_document, presenter>>]_vars

\* C8 witness: the store is empty after ClearAnnotations, with a document
\* open and the presenter active.
C8_Witness ==
    /\ out.event = AnnotationsCleared
    /\ DOMAIN annotations = {}
    /\ pdf.is_loaded
    /\ presenter.is_active

\* C9: whenever no document is loaded, total_pages = 0 and current_page = 1.
C9_UnloadedIsReset == ~pdf.is_loaded => (pdf.total_pages = 0 /\ pdf.current_page = 1)

---------------------------------------------------------------------------
(* Claims on the capture pipeline *)

\* C10: a start-capture request issued while capture is active is rejected
\* with an AlreadyRunning error and leaves the capture-active flag, both frame
\* counters and the registered sinks as they were.
C10_StartWhileActiveRejected ==
    [][(start_ndi_sender /\ integration.ndi_active)
        => /\ ret'.op = "start_ndi_sender"
           /\ ret'.result = "Err"
           /\ UNCHANGED <<integration, outputs>>]_vars

\* What start_ndi_sender does in that case: it returns success with a logged
\* warning, leaves the flag, both counters and the sinks as they were, spawns
\* no capture thread and leaves no call in progress.
StartWhileActiveIgnored ==
    [][(start_ndi_sender /\ integration.ndi_active)
        => /\ ret' = ReturnedWarned("start_ndi_sender", "Ok")
           /\ UNCHANGED <<integration, outputs, threads, calls>>]_vars

\* C10 witness: start_ndi_sender has returned from its already-running branch
\* while one capture thread polls, frames are counted and both sinks are
\* registered.
C10_Witness ==
    /\ ret = ReturnedWarned("start_ndi_sender", "Ok")
    /\ integration.ndi_active
    /\ integration.frames_captured > 0
    /\ integration.frames_sent > 0
    /\ outputs.ndi_sender.some
    /\ outputs.syphon_server.some
    /\ threads["polling"] = 1
    /\ ThreadsAlive = 1

\* C11: stop-capture issued when capture is not active returns success and
\* changes nothing: the flag, both counters, the registered sinks, the capture
\* threads and the calls in progress are as before, so a repeated stop does
\* what the first one did.
C11_StopWhenIdleIsNoOp ==
    [][(stop_ndi_sender /\ ~integration.ndi_active)
        => /\ ret' = Returned("stop_ndi_sender", "Ok")
           /\ UNCHANGED <<integration, outputs, calls, threads, callback>>]_vars

\* C11 witness: stop_ndi_sender has returned from its not-running branch
\* while an NDI sender is registered and a frame is counted.
C11_Witness ==
    /\ ret = Returned("stop_ndi_sender", "Ok")
    /\ ~integration.ndi_active
    /\ outputs.ndi_sender.some
    /\ integration.frames_captured > 0

\* C12: once a stop-capture call on an active capture has returned, both
\* counters are 0 and no NDI or Syphon sink is registered, until the next
\* start of capture or of a sink.
C12_StoppedIsClean ==
    (/\ ret = ReturnedInfo("stop_ndi_sender", "Ok")
     /\ ~integration.ndi_active
     /\ calls["ndi_create"] = 0
     /\ calls["syphon_register"] = 0
     /\ calls["syphon_flags"] = 0)
    => /\ integration.frames_captured = 0
       /\ integration.frames_sent = 0
       /\ ~outputs.ndi_sender.some
       /\ ~outputs.syphon_server.some

\* C13: a delivered frame with an empty payload changes neither counter and
\* is offered to no sink: the callback returns before the fan-out.
C13_EmptyFrameSkipped ==
    [][frame_callback(TRUE)
        => /\ UNCHANGED <<integration, outputs>>
           /\ callback' = "skipped"]_vars

\* C13 witness: an empty frame was skipped while capture was active with both
\* sinks registered and running, and nothing is counted.
C13_Witness ==
    /\ callback = "skipped"
    /\ integration.ndi_active
    /\ sink_is_running(outputs.ndi_sender)
    /\ sink_is_running(outputs.syphon_server)
    /\ integration.frames_captured = 0
    /\ integration.frames_sent = 0

\* C14: a delivered frame with a payload adds exactly one to framesCaptured,
\* and adds one to framesSent for each registered sink that was running and
\* whose send succeeded, and for nothing else.
C14_FrameCounts ==
    [][/\ frame_callback(FALSE)
          => /\ integration'.frames_captured = integration.frames_captured + 1
             /\ integration'.frames_sent = integration.frames_sent
       /\ frame_callback_ndi
          => /\ UNCHANGED integration
             /\ (callback' = "ndi_sent") = sink_is_running(outputs.ndi_sender)
       /\ frame_callback_ndi_sent
          => /\ integration'.frames_sent = integration.frames_sent + 1
             /\ integration'.frames_captured = integration.frames_captured
       /\ \A published \in BOOLEAN :
             frame_callback_syphon(published)
             => /\ UNCHANGED integration
                /\ (callback' = "syphon_sent")
                      = (sink_is_running(outputs.syphon_server) /\ published)
       /\ frame_callback_syphon_sent
          => /\ integration'.frames_sent = integration.frames_sent + 1
             /\ integration'.frames_captured = integration.frames_captured]_vars

\* C14 witness: one frame was captured and delivered to both sinks.
C14_Witness ==
    /\ callback = "idle"
    /\ integration.frames_captured = 1
    /\ integration.frames_sent = 2
    /\ outputs.ndi_sender.some
    /\ outputs.syphon_server.some

\* C15: a send that fails does not end the fan-out and is not counted: the
\* Syphon branch follows the NDI branch whatever the NDI send returned, and a
\* failed Syphon send leaves framesSent at the deliveries that succeeded.
C15_FailedSendNotCounted ==
    [][/\ frame_callback_ndi => callback' \in {"ndi_sent", "syphon"}
       /\ frame_callback_ndi_sent => callback' = "syphon"
       /\ (frame_callback_syphon(FALSE) /\ sink_is_running(outputs.syphon_server))
          => /\ callback' = "syphon_error"
             /\ UNCHANGED integration]_vars

\* C15 witness: the NDI sender took the frame, the Syphon send failed, and
\* one delivery is counted.
C15_Witness ==
    /\ callback = "syphon_error"
    /\ integration.frames_captured = 1
    /\ integration.frames_sent = 1
    /\ outputs.ndi_sender.some

\* C16: when the capture target cannot be resolved, start-capture reports the
\* failure to its caller, the capture-active flag is false afterwards and a
\* later start-capture is accepted.
C16_UnresolvedTargetReported ==
    [][run_capture_loop_start("no_target")
        => /\ ret'.op = "start_ndi_sender"
           /\ ret'.result = "Err"
           /\ ~integration'.ndi_active
           /\ ~capture_already_running(integration')]_vars

\* C17: a failed start-capture and a failed sink construction leave no sink of
\* theirs registered: with no capture thread alive and no call in progress no
\* NDI sender is registered, and a start_syphon_output that returns an error
\* leaves the registry as it was.
C17_FailedStartLeavesNoSink ==
    /\ []((ThreadsAlive = 0 /\ CallsInProgress = 0) => ~outputs.ndi_sender.some)
    /\ [][(start_syphon_output /\ ret'.result = "Err") => UNCHANGED outputs]_vars

\* C18: whenever no capture thread exists and no start call is in progress,
\* the capture-active flag reported to clients is false.
C18_FlagReflectsCapture ==
    (ThreadsAlive = 0 /\ calls["ndi_create"] = 0)
    => ~get_capture_status(integration).is_capturing

\* A stop() leaves the object not running, and changes nothing on an object
\* that is already not running.
StopLeavesStopped(k) ==
    /\ ~sinks'[k].is_running
    /\ ~sinks[k].is_running => sinks'[k] = sinks[k]

\* A send on an object that is not running returns an error and delivers
\* nothing: the object, its frames_sent included, is as before.
SendRefused(k) ==
    ~sinks[k].is_running => ret'.result = "Err" /\ sinks'[k] = sinks[k]

SinkStopContract ==
    /\ call_NdiSender_stop => StopLeavesStopped("ndi")
    /\ call_SyphonServer_stop => StopLeavesStopped("syphon")
    /\ call_NdiSender_send_frame => SendRefused("ndi")
    /\ \A empty, published \in BOOLEAN :
           call_SyphonServer_send_frame(empty, published)
               => SendRefused("syphon")

\* stop() has returned on the object of kind k at least once since it last
\* ran: is_running is set by NdiSender::start and SyphonServer::new and
\* cleared by stop alone.
Stopped(k) == Live(k) /\ sinks[k].acquired > 0 /\ ~sinks[k].is_running

\* Nothing is destroyed twice or destroyed before it is created.
NeverReleasedTwice(k) ==
    /\ sinks[k].released <= sinks[k].acquired
    /\ sinks[k].resource => sinks[k].released = sinks[k].acquired - 1
    /\ ~sinks[k].resource => sinks[k].released = sinks[k].acquired

\* C19 as stated: however many times stop is called on a sink, the sink is
\* as after one call: is_running is false, the resource it held has been
\* released exactly once, and every later send returns an error and delivers
\* nothing.
C19_StopReleasesOnce ==
    /\ [][SinkStopContract]_vars
    /\ [](\A k \in SinkKinds :
             Stopped(k) => /\ ~sinks[k].resource
                           /\ sinks[k].released = sinks[k].acquired)

\* C19, amended: however many times stop is called on a sink, the sink is as
\* after one call: is_running is false and every later send returns an error
\* and delivers nothing.  The resource is released exactly once: an NDI
\* sender's pair by the first stop, a Syphon server's handle not by stop but
\* when the server is dropped.
C19_StopIsIdempotent ==
    /\ [][SinkStopContract]_vars
    /\ [](\A k \in SinkKinds : NeverReleasedTwice(k))
    /\ [](Stopped("ndi") => ~sinks["ndi"].resource)
    /\ [](Live("syphon") => sinks["syphon"].resource)
    /\ [](\A k \in SinkKinds :
             sinks[k].life = "dropped" => ~sinks[k].resource)

\* An NDI sender stopped a second time, its one pair released once, next to
\* a Syphon server that was stopped and still holds its handle.
C19_Witness ==
    /\ ret = Returned("NdiSender::stop", "()")
    /\ Stopped("ndi")
    /\ sinks["ndi"].released = 1
    /\ Stopped("syphon")
    /\ sinks["syphon"].frames_sent > 0

\* C20: a send that returns an error leaves the sink registered, with the
\* is_running it had.
C20_FailedSendKeepsSink ==
    [][\A published \in BOOLEAN :
        (/\ frame_callback_syphon(published)
         /\ sink_is_running(outputs.syphon_server)
         /\ syphon_send_frame(outputs.syphon_server, published) = "Err")
        => outputs' = outputs]_vars

\* C20 witness: the Syphon send failed and the server is still registered and
\* running, next to the NDI sender.
C20_Witness ==
    /\ callback = "syphon_error"
    /\ sink_is_running(outputs.syphon_server)
    /\ sink_is_running(outputs.ndi_sender)
    /\ integration.syphon_active

\* A start command that finds a running instance of its kind registered is
\* refused: an error is returned and nothing is created or registered.
StartOfRunningKindRejected ==
    /\ (start_syphon_output /\ sink_is_running(outputs.syphon_server))
           => /\ ret'.op = "start_syphon_output"
              /\ ret'.result = "Err"
              /\ UNCHANGED <<outputs, calls>>
    /\ (start_ndi_sender /\ sink_is_running(outputs.ndi_sender))
           => /\ ret'.op = "start_ndi_sender"
              /\ ret'.result = "Err"
              /\ UNCHANGED <<outputs, calls, threads>>

\* An instance is registered only where none of its kind is registered: no
\* second instance exists next to the first, not even until it replaces it.
NoSecondInstance ==
    /\ start_syphon_output_register => ~outputs.syphon_server.some
    /\ (start_ndi_sender_spawn /\ outputs'.ndi_sender.some)
           => ~outputs.ndi_sender.some

\* C21: at most one instance of a sink kind is alive at any time: a start for
\* a kind that has a running instance is rejected as a caller error and
\* neither creates nor registers a second instance, also when two starts
\* interleave.
C21_OneSinkPerKind ==
    [][StartOfRunningKindRejected /\ NoSecondInstance]_vars

\* C22: while capture stays active, from a successful start to the next stop,
\* framesCaptured and framesSent never decrease; they go back to 0 only with
\* a capture stop.
C22_CountersMonotoneWhileActive ==
    [][(integration.ndi_active /\ integration'.ndi_active)
          => /\ integration'.frames_captured >= integration.frames_captured
             /\ integration'.frames_sent >= integration.frames_sent]_vars

\* The fields of AppState.
store == <<pdf, pdf_document, presenter, annotations, integration, outputs>>

\* An operation that found a lock poisoned returned an error and wrote
\* nothing.
StateLockIsRecoverable ==
    /\ \A cmd \in ProtocolCmds :
           handle_command_state_lock(PoisonConn, cmd)
               => out'.event.type = "Error" /\ UNCHANGED store
    /\ \A p \in Paths, n \in PageCounts :
           open_pdf_state_lock(p, n) => ret'.result = "Err" /\ UNCHANGED store
    /\ start_ndi_sender_state_lock => ret'.result = "Err" /\ UNCHANGED store
    /\ stop_ndi_sender_state_lock => ret'.result = "Err" /\ UNCHANGED store
    /\ \A pc \in ThreadPcs, outcome \in OutcomesOfStart :
           run_capture_loop_panic(pc, outcome)
               => ret'.result = "Err" /\ UNCHANGED store

\* C23: an operation that cannot take a state lock because it is poisoned,
\* be it a protocol command handler, a host command or the capture loop,
\* yields a recoverable error (an Error event for a protocol command), does
\* not crash, and leaves the store unchanged.
C23_PoisonedLockIsRecoverable ==
    /\ [][StateLockIsRecoverable]_vars
    /\ [](ret # Panicked)

\* C28: the first two events a connection that became Ready receives are
\* Connected{version} and then a State snapshot, before any other event.
C28_ConnectedThenState ==
    \A c \in Conns :
        /\ Len(ws[c]) >= 1 => ws[c][1].type = "Connected"
        /\ Len(ws[c]) >= 2 => ws[c][2].type = "State"

\* C29: a malformed inbound payload produces an Error{message} response to
\* the connection that sent it and to no other, changes no session state,
\* and leaves the connection open.
C29_MalformedPayloadAnswered ==
    [][\A c \in Conns :
          receive(c, "text_malformed")
              => /\ rx' = [rx EXCEPT ![c] = Append(@, ErrorMessage)]
                 /\ UNCHANGED store
                 /\ conn'[c] = "open"]_vars

\* The connections whose handle_connection has registered them and has not
\* yet run its cleanup.
Connected == {c \in Conns : conn[c] \in {"registered", "open", "closing"}}

\* A step of connection c leaves every other connection as it was.
OthersUntouched(c) ==
    \A k \in Conns \ {c} :
        /\ conn'[k] = conn[k]
        /\ rx'[k] = rx[k]
        /\ ws'[k] = ws[k]
        /\ (k \in clients') = (k \in clients)

EndOfConnection ==
    /\ \A c \in Conns :
           (receive(c, "Close") \/ receive(c, "Err"))
               => conn'[c] = "closing" /\ OthersUntouched(c)
    /\ \A c \in Conns :
           cleanup(c) => /\ c \notin clients'
                         /\ conn'[c] = "closed"
                         /\ OthersUntouched(c)
    /\ server_broadcast(PageChangedMessage)
           => \A k \in Conns :
                  conn[k] = "open" => rx'[k] = Append(rx[k], PageChangedMessage)

\* C30: a Close frame or a transport error on one connection ends the loop
\* of that connection only and removes its registry entry only: the registry
\* then holds exactly the connections that are still open, and the other
\* connections go on receiving events.
C30_CloseEndsOneConnection ==
    /\ [][EndOfConnection]_vars
    /\ [](clients = Connected)

\* One connection closed and out of the registry, the other still in it with
\* a broadcast message on its channel.
C30_Witness ==
    /\ conn["A"] = "closed"
    /\ ws["A"] # << >>
    /\ conn["B"] = "open"
    /\ clients = {"B"}
    /\ rx["B"] = <<PageChangedMessage>>

\* The last value waiting in the receiver of c after a step is an event of
\* this kind published by the host.
HostPublished(c, type) ==
    /\ backlog'[c].queue # << >>
    /\ LET m == backlog'[c].queue[Len(backlog'[c].queue)] IN
       m.origin = "host" /\ m.event.type = type

\* With the channel set up, every subscribed connection is handed an event
\* of this kind by the step.
PublishedToAll(type) ==
    broadcast_sender => \A c \in Conns : backlog[c].subscribed => HostPublished(c, type)

\* C25: every host-side change of the document state (a document opened, a
\* document closed, the page set from the presenter side) publishes the
\* matching broadcast-worthy event on the channel, as the same change made
\* by a protocol command does.
C25_HostMutationsPublished ==
    [][/\ \A p \in Paths, n \in PageCounts :
              open_pdf(p, n) => PublishedToAll("PdfOpened")
       /\ close_pdf => PublishedToAll("PdfClosed")
       /\ \A n \in PageInputs :
              set_presenter_page(n) => PublishedToAll("PageChanged")]_vars

\* What one receiver holds after a publication of m: the value is its last
\* one, no more than the capacity is kept, and it has lost values exactly
\* when it had before or was full.
ReceiverAfter(r, r2, m) ==
    IF ~r.subscribed THEN r2 = r
    ELSE /\ r2.subscribed
         /\ r2.queue # << >>
         /\ r2.queue[Len(r2.queue)] = m
         /\ Len(r2.queue) = Min(Len(r.queue) + 1, ChannelCapacity)
         /\ r2.lagged = (r.lagged \/ Len(r.queue) = ChannelCapacity)

\* C27: publishing never fails the publisher and never waits: save_annotations
\* past its file write returns Ok with nothing logged and in one step, with
\* the channel not yet set up (nothing is published), with no subscriber, and
\* with a subscriber whose receiver is full, which loses its oldest event.
C27_PublishNeverFails ==
    [][\A anns \in SavedAnnotations :
          (save_annotations(anns, TRUE) /\ pdf.current_file # None)
              => /\ ret' = Returned("save_annotations", "Ok")
                 /\ annotations' = serialized(anns)
                 /\ IF broadcast_sender
                    THEN \A c \in Conns :
                             ReceiverAfter(backlog[c], backlog'[c],
                                 Message(AnnotationsSaved(anns), "host", 0))
                    ELSE backlog' = backlog]_vars

\* save_annotations has returned Ok after it published to one connection
\* whose receiver was full and has lost an event, the other connection not
\* being subscribed.
C27_Witness ==
    /\ ret = Returned("save_annotations", "Ok")
    /\ broadcast_sender
    /\ backlog["A"].lagged
    /\ Len(backlog["A"].queue) = ChannelCapacity
    /\ ~backlog["B"].subscribed

\* The values of a sequence.
Range(q) == {q[i] : i \in 1..Len(q)}

\* The events that are answers to the issuing connection and no more.
PrivateTypes == {"Pong", "Error"}

\* The events of the claim, as the commands of the channel's connections
\* produce them.
SharedEvents ==
    {PageChanged(MaxPages, MaxPages), ZoomChanged(ZOOM_MAX),
     PresenterChanged(TRUE), PresenterChanged(FALSE)}

\* Everything a connection can have published.
FabricMessages ==
    {Message(e, c, n) : e \in SharedEvents, c \in Conns, n \in 1..MaxDelivered}

\* A Pong or an Error is with the client of the connection that issued the
\* command, as its direct response, and nowhere else; what connections have
\* published is of the kinds of the claim.
PrivateStaysPrivate ==
    \A k \in Conns :
        /\ \A x \in Range(inbox[k]) :
               x.event.type \in PrivateTypes => x.via = "response" /\ x.origin = k
        /\ \A m \in Range(backlog[k].queue) :
               /\ m.event.type \notin PrivateTypes
               /\ m \in FabricMessages

\* A loop that re-publishes an event of the claim's kinds hands it to every
\* subscribed connection.
RepublishReachesAll ==
    \A c \in Conns :
        (republish(c) /\ out.event \in SharedEvents)
            => \A k \in Conns :
                   backlog[k].subscribed
                       => /\ backlog'[k].queue # << >>
                          /\ backlog'[k].queue[Len(backlog'[k].queue)]
                                 = Message(out.event, c, response_seq(c))

Queued(k, m) == m \in Range(backlog[k].queue)
Delivered(k, m) == Forwarded(m) \in Range(inbox[k])

\* C24: every PageChanged, ZoomChanged and PresenterChanged event that
\* results from a command of one connection is handed to every subscribed
\* connection and is eventually sent to the client of every other one, unless
\* that connection lagged and lost it; Pong and Error go to the client of the
\* issuing connection only.
C24_BroadcastReachesOthers ==
    /\ []PrivateStaysPrivate
    /\ [][RepublishReachesAll]_vars
    /\ \A k \in Conns : \A m \in FabricMessages :
           (m.origin # k /\ Queued(k, m))
               ~> (Delivered(k, m) \/ backlog[k].lagged)

\* B's client has been sent the PageChanged that answered A's GoToPage, and
\* also a Pong that answered its own Ping; A's client has no Pong.
C24_Witness ==
    /\ inbox["A"] # << >>
    /\ inbox["A"][1] = Response("A", PageChanged(MaxPages, MaxPages), 1)
    /\ Forwarded(Message(PageChanged(MaxPages, MaxPages), "A", 1)) \in Range(inbox["B"])
    /\ Response("B", Pong, 1) \in Range(inbox["B"])
    /\ \A x \in Range(inbox["A"]) : x.event # Pong

\* C26: the direct response to a command is sent to the client of the issuing
\* connection before the event published as a consequence of the command is
\* on the channel, hence before any connection, the issuing one included,
\* sends that event to its client.
C26_ResponseBeforeBroadcast ==
    \A c \in Conns, k \in Conns :
        /\ \A m \in Range(backlog[k].queue) :
               m.origin = c
                   => /\ m.seq <= Len(inbox[c])
                      /\ inbox[c][m.seq] = Response(c, m.event, m.seq)
        /\ \A i \in 1..Len(inbox[k]) :
               (inbox[k][i].via = "broadcast" /\ inbox[k][i].origin = c)
                   => /\ inbox[k][i].seq <= Len(inbox[c])
                      /\ inbox[c][inbox[k][i].seq]
                             = Response(c, inbox[k][i].event, inbox[k][i].seq)
                      /\ (k = c => inbox[k][i].seq < i)

\* A's client has been sent the ZoomChanged that answered its SetZoom and
\* then the same event from the channel.
C26_Witness ==
    /\ Len(inbox["A"]) = 2
    /\ inbox["A"][1] = Response("A", ZoomChanged(ZOOM_MAX), 1)
    /\ inbox["A"][2] = Forwarded(Message(ZoomChanged(ZOOM_MAX), "A", 1))

\* C31: each TogglePresenter command flips presenter.is_active exactly once,
\* whatever the interleaving of the commands of the connections: the update
\* of every TogglePresenter leaves the flag the negation of what it was, so
\* that n completed commands leave it flipped n times.
C31_ToggleFlipsOnce ==
    [][\A c \in Conns :
          (update_state(c) /\ pend[c].cmd = TogglePresenterCmd)
              => presenter'.is_active = ~presenter.is_active]_vars

\* C32: each NextPage answered with PageChanged advances the stored page by
\* exactly one, also when the commands of different connections interleave.
C32_NextPageAdvancesByOne ==
    [][\A c \in Conns :
          (update_state(c) /\ pend[c].cmd = NextPageCmd)
              => pdf'.current_page = pdf.current_page + 1]_vars

\* The event a connection's handler is about to return
Returning(c, type) == Stage(c) = "return" /\ pend[c].event.type = type

\* C40 (as stated): when connections issue GoToPage or SetZoom commands
\* concurrently, the change events are produced in the order of the writes:
\* once all commands have completed, the last PageChanged event carries the
\* stored page and the last ZoomChanged event the stored zoom level.
C40_EventsInWriteOrder ==
    (\A c \in Conns : pend[c] = NoPend) =>
        /\ (out # NoOut /\ out.event.type = "PageChanged")
               => out.event.page = pdf.current_page
        /\ (out # NoOut /\ out.event.type = "ZoomChanged")
               => out.event.zoom = pdf.zoom_level

\* C40 (amended): a change event carries the value its own command stored,
\* and it carries the stored value when it is returned if no other command
\* has written the field since; events of different connections may be
\* produced in the opposite order of their writes.
C40_EventOfLastWriteIsStored ==
    \A c \in Conns :
        /\ (Returning(c, "PageChanged") /\ writer.page = c)
               => pend[c].event.page = pdf.current_page
        /\ (Returning(c, "ZoomChanged") /\ writer.zoom = c)
               => pend[c].event.zoom = pdf.zoom_level

\* Two GoToPage commands in flight with different pages, both written: the
\* one that wrote last is about to return, the other returns after it
C40_Witness ==
    \E c, d \in Conns :
        /\ c # d
        /\ Returning(c, "PageChanged") /\ Returning(d, "PageChanged")
        /\ pend[c].event.page # pend[d].event.page
        /\ writer.page = c

\* C33: the sink-registry lock is held only for the registry operation
\* itself: the frame callback does not hold it when it starts a sink's send
\* and does not hold it when it acquires the integration lock to count a
\* delivery, so that a register or clear never waits for a send.
C33_RegistryLockHeldBriefly ==
    [][/\ (frame_callback_ndi_sent \/ frame_callback_syphon_sent)
              => ~OutputsLocked
       /\ (\E published \in BOOLEAN :
              /\ frame_callback_syphon(published)
              /\ sink_is_running(outputs.syphon_server))
              => ~OutputsLocked]_vars

\* The field groups of the locks a task holds
GroupsHeld(t) == {group_of(h.lock) : h \in locking[t].held} \intersect FieldGroups

\* C34: no operation holds the lock of one field group (document,
\* presenter, annotations, integration) while it acquires the lock of another
\* field group, in any protocol command handler, host command or capture
\* path.
C34_OneFieldGroupAtATime ==
    \A t \in LockTasks :
        (Running(t) /\ at(t).step = "lock" /\ group_of(at(t).lock) \in FieldGroups)
            => GroupsHeld(t) \subseteq {group_of(at(t).lock)}

\* A GetState handler has read the document group and dropped its lock and
\* is acquiring the lock of the presenter group, while the frame callback
\* acquires the integration lock holding the lock of the sink registry
C34_Witness ==
    /\ locking["connection"].op = "GetState"
    /\ locking["connection"].pc = 3
    /\ at("connection").lock = "presenter"
    /\ locking["frame"].held # {}
    /\ at("frame").step = "lock"
    /\ at("frame").lock = "integration"
\* stop_ndi_sender has cleared the flag of an active capture whose thread is
\* polling
StopSignalled == calls["ndi_stop_outputs"] > 0 /\ threads["polling"] > 0

\* C35: after stop-capture on an active capture the capture thread started
\* by the preceding start eventually observes the stop signal, and with it
\* stops the stream and goes on to tear down the sinks and terminate.
C35_StopIsObserved == StopSignalled ~> (threads["teardown"] > 0)
\* C36: at most one capture thread is alive at any time, for every
\* interleaving of start_ndi_sender and stop_ndi_sender, a start issued
\* right after a stop and before the thread has polled the flag included.
C36_OneCaptureThread == ThreadsAlive <= 1

\* C37: the teardown of a terminating capture thread affects only its own
\* session: when a later start has set the flag again by the time the thread
\* tears down, "Stop all outputs" unregisters nothing and
\* reset_frame_counters resets nothing.
C37_TeardownOfOwnSession ==
    [][/\ (run_capture_loop_stop_outputs /\ integration.ndi_active)
              => outputs' = outputs
       /\ (run_capture_loop_reset /\ integration.ndi_active)
              => integration' = integration]_vars

\* C38: in every reachable state framesSent <= 2 * framesCaptured, also when
\* a stop resets the counters while a frame is being delivered.
C38_SentAtMostTwiceCaptured ==
    integration.frames_sent <= 2 * integration.frames_captured

\* No command is inside its blocks and no capture thread in its teardown
NoOperationInProgress ==
    CallsInProgress = 0 /\ threads["teardown"] = 0 /\ threads["reset"] = 0

\* C39: whenever no operation is in progress, syphon_active is true exactly
\* when a Syphon server is registered; after the teardown of a capture thread
\* has removed the server the flag is false.
C39_SyphonFlagMeansRegistered ==
    NoOperationInProgress
        => (integration.syphon_active <=> outputs.syphon_server.some)

====
